---- MODULE Spec2Model ----
(***************************************************************************)
(* RetailAI: turn router (main.py run_agent), intent classifier            *)
(* (agents/intent_agent.py), time sub-agent (agents/time_agent.py) and     *)
(* general tool-using agent (main.py decision / tool / answer nodes).      *)
(*                                                                         *)
(* Text is modelled as a sequence of tokens; each token stands for a run   *)
(* of characters of the Chinese source strings (written in pinyin, since   *)
(* the module is ASCII).  The token " " is a run of whitespace.  Substring *)
(* tests of the source (keyword in question) are tests on tokens.          *)
(* Python's None is the value None; a dict key that is absent is recorded  *)
(* in the "keys" field of the record that models the dict.                 *)
(***************************************************************************)
EXTENDS Integers, Sequences, FiniteSets, TLC

VARIABLES
    pc,                     \* position of the session loop / graph node
    turn,                   \* number of turns started so far
    user_input,             \* run_agent: user_input of the current turn
    cls,                    \* outcome of the classification model call
    clar,                   \* outcome of the clarification model call
    dec,                    \* outcome of the model call of the decision node
    intent_type,            \* run_agent: intent_type
    clarification_question, \* run_agent: clarification_question
    route,                  \* what the current / last turn did
    invoked,                \* sub-agents invoked in the current turn
    calls,                  \* model / tool calls made in the current turn
    shown,                  \* texts shown to the user in the current turn
    history,                \* checkpointed messages of thread user_thread_1
    turnStart,              \* history when the current turn started
    tstate,                 \* state dict of the time agent graph
    tinit,                  \* conversation the time agent run started from
    ai_response,            \* ai_response returned by the general agent nodes
    registry,               \* tool_registry.tools: the names registered
    invocation,             \* the name and params handed to handle_tool_call
    results                 \* what the calls of handle_tool_call returned

vars == <<pc, turn, user_input, cls, clar, dec, intent_type, clarification_question,
          route, invoked, calls, shown, history, turnStart, tstate, tinit,
          ai_response, registry, invocation, results>>

registryvars == <<registry, invocation, results>>

(***************************************************************************)
(* Bounds                                                                  *)
(***************************************************************************)
MaxTurns == 2

(***************************************************************************)
(* Text                                                                    *)
(***************************************************************************)
None == <<"<None>">>
WS == " "

RECURSIVE lstrip(_)
lstrip(s) == IF s # <<>> /\ Head(s) = WS THEN lstrip(Tail(s)) ELSE s

RECURSIVE rstrip(_)
rstrip(s) ==
    IF s # <<>> /\ s[Len(s)] = WS THEN rstrip(SubSeq(s, 1, Len(s) - 1)) ELSE s

\* str.strip()
strip(s) == rstrip(lstrip(s))

\* keyword in question
Contains(question, keyword) == \E i \in 1..Len(question) : question[i] = keyword

\* truthiness of an Optional[str]
Truthy(s) == s # None /\ s # <<>>

LowerTok(t) ==
    CASE t = "EXIT" -> "exit"
      [] t = "Q" -> "q"
      [] OTHER -> t

\* str.lower()
lower(s) == [i \in 1..Len(s) |-> LowerTok(s[i])]

ExitCommands == {<<"tuichu">>, <<"exit">>, <<"quit">>, <<"q">>}

(***************************************************************************)
(* Model completion collaborator: a call fails, or returns a message with  *)
(* content (a text or None) and tool calls.                                *)
(***************************************************************************)
NoCall == [ok |-> FALSE, made |-> FALSE, content |-> None, tool_calls |-> <<>>]
Failed == [ok |-> FALSE, made |-> TRUE, content |-> None, tool_calls |-> <<>>]
Response(c, tcs) == [ok |-> TRUE, made |-> TRUE, content |-> c, tool_calls |-> tcs]

(***************************************************************************)
(* Intent classifier                                                       *)
(***************************************************************************)
TIME_RELATED == <<"shijianxiangguan">>
NON_TIME_RELATED == <<"feishijianxiangguan">>
UNKNOWN == <<"weizhi">>
CANNOT_DETERMINE == <<"wufapanduan">>

DefaultClarification == <<"qingwen", "shijianxiangguan", "haishi", "qita">>

Labels == {TIME_RELATED, NON_TIME_RELATED, CANNOT_DETERMINE}

\* contents the classification call can come back with
ClassifyContents ==
    Labels \cup
    { None, <<>>, UNKNOWN, <<"x">>,
      <<WS>> \o TIME_RELATED \o <<WS>>,
      <<WS>> \o CANNOT_DETERMINE,
      TIME_RELATED \o <<"x">> }

ClassifyOutcomes == {Failed} \cup {Response(c, <<>>) : c \in ClassifyContents}

ClarifyContents == { None, <<>>, <<WS>>, <<"nin", "xiang", "shenme">>,
                     <<WS, "nin", "xiang", "shenme">> }

ClarifyOutcomes == {Failed} \cup {Response(c, <<>>) : c \in ClarifyContents}

recognize_intent_substring(r) ==
    IF ~r.ok THEN UNKNOWN
    ELSE IF r.content = None THEN UNKNOWN
    ELSE IF \E l \in Labels : Contains(r.content, l[1])
         THEN <<CHOOSE t \in {l[1] : l \in Labels} : Contains(r.content, t)>>
    ELSE UNKNOWN

\* IntentAgent.recognize_intent: r is the outcome of the model call
recognize_intent(r) ==
    IF ~r.ok THEN UNKNOWN                     \* except Exception
    ELSE IF r.content = None THEN UNKNOWN     \* None.strip() raises, caught
    ELSE IF strip(r.content) \in Labels THEN strip(r.content)
    ELSE UNKNOWN

generate_clarification_question_raise(r) ==
    IF ~r.ok THEN None
    ELSE IF r.content = None THEN None
    ELSE strip(r.content)

\* IntentAgent.generate_clarification_question
generate_clarification_question(r) ==
    IF ~r.ok THEN DefaultClarification
    ELSE IF r.content = None THEN DefaultClarification
    ELSE strip(r.content)

\* the test of process_intent, line 177
NeedsClarification(intent) == intent = CANNOT_DETERMINE \/ intent = UNKNOWN

\* IntentAgent.process_intent: <<intent, clarification question or None>>;
\* rc and rq are the outcomes of the two model calls, rq is used only when
\* the clarification call is made
process_intent(rc, rq) ==
    LET intent == recognize_intent(rc)
    IN  IF NeedsClarification(intent)
        THEN <<intent, generate_clarification_question(rq)>>
        ELSE <<intent, None>>

(***************************************************************************)
(* Messages: a dict with role and, when present, content, tool_calls, name *)
(***************************************************************************)
UserMsg(text) ==
    [role |-> "user", keys |-> {"role", "content"}, content |-> text,
     tool_calls |-> <<>>, name |-> ""]

AssistantText(text) ==
    [role |-> "assistant", keys |-> {"role", "content"}, content |-> text,
     tool_calls |-> <<>>, name |-> ""]

AssistantCalls(tcs) ==
    [role |-> "assistant", keys |-> {"role", "tool_calls"}, content |-> None,
     tool_calls |-> tcs, name |-> ""]

ToolMsg(tool_name, text) ==
    [role |-> "tool", keys |-> {"role", "content", "name"}, content |-> text,
     tool_calls |-> <<>>, name |-> tool_name]

Last(s) == s[Len(s)]

\* msg.get("content", default)
GetContent(msg, default) == IF "content" \in msg.keys THEN msg.content ELSE default

(***************************************************************************)
(* Time sub-agent (agents/time_agent.py)                                   *)
(***************************************************************************)
time_keywords == {"jidian", "shijian", "xianzai", "riqi", "jihao", "xingqi",
                  "jintian", "mingtian", "zuotian", "shike", "jidianzhong",
                  "shiqu"}

\* city_keywords, in the order of the dict
city_keywords == <<"beijing", "shanghai", "guangzhou", "shenzhen", "niuyue",
                   "luoshanji", "zhijiage", "lundun", "bali", "dongjing",
                   "xini">>

DefaultLocation == "moren"
DefaultTimezone == "Asia/Shanghai"

\* the tool result dict of get_current_time, as far as the agent reads it
TimeResult(tz, format) ==
    [keys |-> {"timezone"} \cup (IF format \in {"time", "both"} THEN {"time"} ELSE {})
                           \cup (IF format \in {"date", "both"} THEN {"date"} ELSE {}),
     timezone |-> tz]
TimeError(tz) == [keys |-> {"error"}, timezone |-> tz]

\* the zones of pytz.all_timezones the model names
all_timezones == {"Asia/Shanghai", "America/New_York", "America/Los_Angeles",
                  "America/Chicago", "Europe/London", "Europe/Paris",
                  "Asia/Tokyo", "Australia/Sydney"}

\* get_current_time: clockOk = FALSE is an exception inside the try block
get_current_time(tz, format, clockOk) ==
    IF ~clockOk THEN TimeError(tz)
    ELSE IF tz \notin all_timezones THEN TimeError(tz)
    ELSE TimeResult(tz, format)

\* fallback_get_current_time
fallback_get_current_time(format, tz, clockOk) == get_current_time(tz, format, clockOk)

RECURSIVE ExtractFrom(_, _, _)
ExtractFrom(question, i, locations) ==
    IF i > Len(city_keywords) THEN locations
    ELSE LET city == city_keywords[i]
         IN  ExtractFrom(question, i + 1,
                 IF Contains(question, city) /\ ~Contains(locations, city)
                 THEN Append(locations, city) ELSE locations)

extract_locations_from_question_first_only(question) ==
    LET found == ExtractFrom(question, 1, <<>>)
    IN  IF found = <<>> THEN <<>> ELSE <<found[1]>>

\* extract_locations_from_question
extract_locations_from_question(question) == ExtractFrom(question, 1, <<>>)

\* the keys of timezone_mapping
timezone_mapping_keys ==
    {"beijing", "shanghai", "guangzhou", "shenzhen", "niuyue", "luoshanji",
     "zhijiage", "lundun", "bali", "dongjing", "xini", "moren"}

\* map_location_to_timezone
map_location_to_timezone(location) ==
    CASE location \in {"beijing", "shanghai", "guangzhou", "shenzhen"} -> "Asia/Shanghai"
      [] location = "niuyue" -> "America/New_York"
      [] location = "luoshanji" -> "America/Los_Angeles"
      [] location = "zhijiage" -> "America/Chicago"
      [] location = "lundun" -> "Europe/London"
      [] location = "bali" -> "Europe/Paris"
      [] location = "dongjing" -> "Asia/Tokyo"
      [] location = "xini" -> "Australia/Sydney"
      [] location = "moren" -> "Asia/Shanghai"
      [] OTHER -> "Asia/Shanghai"

MapLocations_no_default(locations) ==
    [i \in 1..Len(locations) |->
        <<locations[i], map_location_to_timezone(locations[i])>>]

\* locations mapped to (location, timezone) pairs, default when none
MapLocations(locations) ==
    IF locations = <<>> THEN << <<DefaultLocation, DefaultTimezone>> >>
    ELSE [i \in 1..Len(locations) |->
             <<locations[i], map_location_to_timezone(locations[i])>>]

\* extract_locations (the fallback of summarize_node)
extract_locations(question) == MapLocations(extract_locations_from_question(question))

\* the first user message's content, "" when there is none
RECURSIVE FirstUserContent(_)
FirstUserContent(messages) ==
    IF messages = <<>> THEN <<>>
    ELSE IF Head(messages).role = "user" THEN GetContent(Head(messages), <<>>)
    ELSE FirstUserContent(Tail(messages))

\* any(keyword in user_question for keyword in time_keywords)
IsTimeQuestion(question) == \E k \in time_keywords : Contains(question, k)

\* json.dumps({"format": "both", "timezone": timezone})
TimeArguments(tz) == <<"{", "format", "both", "timezone", tz, "}">>

TimeToolCall(tz) == [name |-> "get_current_time", arguments |-> TimeArguments(tz)]

Refusal == <<"baoqian", "woshishijianzhushou">>
DecideError == <<"chuliqingqiushichucuo">>

\* a state dict of the time agent graph
TState(ks, msgs, nxt, rl, air) ==
    [keys |-> ks, messages |-> msgs, next |-> nxt, requested_locations |-> rl,
     ai_response |-> air]

StateMessages(state) == IF "messages" \in state.keys THEN state.messages ELSE <<>>

decide_next_no_keyword_check(state) ==
    LET messages == StateMessages(state)
        question == FirstUserContent(messages)
        lz == MapLocations(extract_locations_from_question(question))
        tcs == [i \in 1..Len(lz) |-> TimeToolCall(lz[i][2])]
    IN  IF messages # <<>> /\ Last(messages).role = "tool"
        THEN TState({"next", "messages"}, messages, "summarize", <<>>, None)
        ELSE IF question = None
        THEN TState({"messages", "next"},
                    Append(messages, AssistantText(DecideError)), "end", <<>>, None)
        ELSE TState({"messages", "requested_locations", "next"},
                    Append(messages, AssistantCalls(tcs)), "call_tool", lz, None)

\* decide_next: the dict the node returns
decide_next(state) ==
    LET messages == StateMessages(state)
        question == FirstUserContent(messages)
        lz == MapLocations(extract_locations_from_question(question))
        tcs == [i \in 1..Len(lz) |-> TimeToolCall(lz[i][2])]
    IN  IF messages # <<>> /\ Last(messages).role = "tool"
        THEN TState({"next", "messages"}, messages, "summarize", <<>>, None)
        ELSE IF question = None      \* keyword in None raises, caught
        THEN TState({"messages", "next"},
                    Append(messages, AssistantText(DecideError)), "end", <<>>, None)
        ELSE IF IsTimeQuestion(question)
        THEN TState({"messages", "requested_locations", "next"},
                    Append(messages, AssistantCalls(tcs)), "call_tool", lz, None)
        ELSE TState({"messages", "next"},
                    Append(messages, AssistantText(Refusal)), "end", <<>>, None)

(***************************************************************************)
(* JSON text of tool-call arguments: <<"{", k1, v1, ..., kn, vn, "}">> is  *)
(* an object, <<"[", "]">> is well-formed JSON that is no object, any      *)
(* other text raises JSONDecodeError.                                      *)
(***************************************************************************)
IsObjectText(text) ==
    /\ Len(text) >= 2
    /\ text[1] = "{"
    /\ text[Len(text)] = "}"
    /\ (Len(text) - 2) % 2 = 0
    /\ \A i \in 2..(Len(text) - 1) : text[i] \notin {"{", "}", "[", "]"}

ObjectKeys(text) == {text[2 * j] : j \in 1..((Len(text) - 2) \div 2)}

\* the value of the last occurrence of key k (a later pair overrides)
ObjectValue(text, k) ==
    LET js == {j \in 1..((Len(text) - 2) \div 2) : text[2 * j] = k}
        j == CHOOSE x \in js : \A y \in js : y <= x
    IN  text[2 * j + 1]

\* json.loads: ok = FALSE is JSONDecodeError
JsonLoads(text) ==
    IF text = None THEN [ok |-> FALSE, kind |-> "error", keys |-> {}, text |-> <<>>]
    ELSE IF IsObjectText(text)
    THEN [ok |-> TRUE, kind |-> "dict", keys |-> ObjectKeys(text), text |-> text]
    ELSE IF text = <<"[", "]">>
    THEN [ok |-> TRUE, kind |-> "list", keys |-> {}, text |-> text]
    ELSE [ok |-> FALSE, kind |-> "error", keys |-> {}, text |-> <<>>]

\* json.dumps of a dict given as its (key, value) pairs in insertion order
RECURSIVE JsonDumpsPairs(_)
JsonDumpsPairs(pairs) ==
    IF pairs = <<>> THEN <<>>
    ELSE <<pairs[1][1], pairs[1][2]>> \o JsonDumpsPairs(Tail(pairs))

JsonDumps(pairs) == <<"{">> \o JsonDumpsPairs(pairs) \o <<"}">>

\* arguments.get(k, default) of a parsed object
ArgGet(a, k, default) == IF k \in a.keys THEN ObjectValue(a.text, k) ELSE default

(***************************************************************************)
(* Time sub-agent: CALL_TOOL                                               *)
(***************************************************************************)
\* time_tool_registry.tools
time_tool_names == {"get_current_time"}

\* json.dumps(result) of a get_current_time result
DumpTimeResult(r) ==
    IF "error" \in r.keys THEN <<"{", "error", r.timezone, "}">>
    ELSE <<"{", "timezone", r.timezone, "}">>

ToolCallFailed == <<"gongjudiaoyongshibai">>
UnknownTool(tool_name) == <<"weizhigongju", tool_name>>

\* the body of the for loop of call_tool_node: the message appended for one
\* tool call
ToolCallMessage(tc, clockOk) ==
    LET a == JsonLoads(tc.arguments)
    IN  IF ~a.ok THEN ToolMsg(tc.name, ToolCallFailed)
        ELSE IF tc.name \in time_tool_names
        THEN IF a.kind # "dict" \/ ~(a.keys \subseteq {"timezone", "format"})
             THEN ToolMsg(tc.name, ToolCallFailed)      \* TypeError, caught
             ELSE ToolMsg(tc.name, DumpTimeResult(
                      get_current_time(ArgGet(a, "timezone", DefaultTimezone),
                                       ArgGet(a, "format", "none"), clockOk)))
        ELSE ToolMsg(tc.name, UnknownTool(tc.name))

NoToolCallText == <<"baoqian", "wufashibiegongjudiaoyong">>

call_tool_node_stop_at_failure(state, oks) ==
    LET messages == StateMessages(state)
    IN  IF \/ messages = <<>>
           \/ Last(messages).role # "assistant"
           \/ "tool_calls" \notin Last(messages).keys
        THEN TState({"messages", "next"},
                    Append(messages, AssistantText(NoToolCallText)), "end", <<>>, None)
        ELSE LET tcs == Last(messages).tool_calls
                 all == [i \in 1..Len(tcs) |-> ToolCallMessage(tcs[i], oks[i])]
                 failing == {i \in 1..Len(tcs) : all[i].content = ToolCallFailed}
                 n == IF failing = {} THEN Len(tcs)
                      ELSE CHOOSE i \in failing : \A j \in failing : i <= j
             IN  TState({"messages", "next"}, messages \o SubSeq(all, 1, n),
                        "summarize", <<>>, None)

\* call_tool_node: the dict the node returns; oks[i] is whether the clock
\* lookup of the i-th call succeeds
call_tool_node(state, oks) ==
    LET messages == StateMessages(state)
    IN  IF \/ messages = <<>>
           \/ Last(messages).role # "assistant"
           \/ "tool_calls" \notin Last(messages).keys
        THEN TState({"messages", "next"},
                    Append(messages, AssistantText(NoToolCallText)), "end", <<>>, None)
        ELSE LET tcs == Last(messages).tool_calls
             IN  TState({"messages", "next"},
                        messages \o [i \in 1..Len(tcs) |-> ToolCallMessage(tcs[i], oks[i])],
                        "summarize", <<>>, None)

(***************************************************************************)
(* Time sub-agent: SUMMARIZE                                               *)
(***************************************************************************)
ClauseBoth(location, tz) ==
    <<location, "dangqianshijianshi", "time", tz, "jintianshi", "date", tz>>
ClauseTime(location, tz) == <<location, "dangqianshijianshi", "time", tz>>
ClauseDate(location, tz) == <<location, "jintianshi", "date", tz>>

\* the clauses of lines 394-401: none for a result without time and date
RECURSIVE Summaries(_, _, _)
Summaries(lz, oks, i) ==
    IF i > Len(lz) THEN <<>>
    ELSE LET r == fallback_get_current_time("both", lz[i][2], oks[i])
             rest == Summaries(lz, oks, i + 1)
         IN  IF "time" \in r.keys /\ "date" \in r.keys
             THEN <<ClauseBoth(lz[i][1], lz[i][2])>> \o rest
             ELSE IF "time" \in r.keys THEN <<ClauseTime(lz[i][1], lz[i][2])>> \o rest
             ELSE IF "date" \in r.keys THEN <<ClauseDate(lz[i][1], lz[i][2])>> \o rest
             ELSE rest

\* the clauses of lines 416-419: only results with both time and date
RECURSIVE SummariesBoth(_, _, _)
SummariesBoth(lz, oks, i) ==
    IF i > Len(lz) THEN <<>>
    ELSE LET r == fallback_get_current_time("both", lz[i][2], oks[i])
             rest == SummariesBoth(lz, oks, i + 1)
         IN  IF "time" \in r.keys /\ "date" \in r.keys
             THEN <<ClauseBoth(lz[i][1], lz[i][2])>> \o rest
             ELSE rest

\* sep.join(parts)
RECURSIVE Join(_, _)
Join(parts, sep) ==
    IF parts = <<>> THEN <<>>
    ELSE IF Len(parts) = 1 THEN parts[1]
    ELSE parts[1] \o <<sep>> \o Join(Tail(parts), sep)

\* lines 404-410
JoinByCount(summaries) ==
    IF Len(summaries) = 1 THEN summaries[1] \o <<".">>
    ELSE IF Len(summaries) = 2 THEN Join(summaries, ";") \o <<".">>
    ELSE Join(<< <<>> >> \o summaries, "<br>*") \o <<".">>

Summary_from_tool_messages(state, oks) ==
    LET messages == StateMessages(state)
        good == {i \in 1..Len(messages) :
                    /\ messages[i].role = "tool"
                    /\ messages[i].content # <<"gongjudiaoyongshibai">>
                    /\ messages[i].content[2] # "error"}
    IN  <<"clauses", ToString(Cardinality(good)), ".">>

\* the summary text of summarize_node
Summary(state, oks) ==
    LET messages == StateMessages(state)
        question == FirstUserContent(messages)
        requested_locations ==
            IF "requested_locations" \in state.keys
            THEN state.requested_locations ELSE <<>>
    IN  IF requested_locations # <<>>
        THEN JoinByCount(Summaries(requested_locations, oks, 1))
        ELSE LET locations ==
                     IF question = None       \* raises in extract_locations, caught
                     THEN << <<DefaultLocation, DefaultTimezone>> >>
                     ELSE extract_locations(question)
             IN  Join(SummariesBoth(locations, oks, 1), ";") \o <<".">>

\* the (location, timezone) pairs summarize_node looks the time up for
SummaryLocations(state) ==
    LET question == FirstUserContent(StateMessages(state))
    IN  IF "requested_locations" \in state.keys /\ state.requested_locations # <<>>
        THEN state.requested_locations
        ELSE IF question = None THEN << <<DefaultLocation, DefaultTimezone>> >>
        ELSE extract_locations(question)

summarize_node_no_append(state, oks) ==
    TState({"messages", "ai_response", "next"}, StateMessages(state), "end", <<>>,
           Summary(state, oks))

\* summarize_node: the dict the node returns
summarize_node(state, oks) ==
    TState({"messages", "ai_response", "next"},
           Append(StateMessages(state), AssistantText(Summary(state, oks))),
           "end", <<>>, Summary(state, oks))

\* StateGraph(dict): the schema has no annotated keys, so the state is one
\* value and the dict a node returns replaces it; a key a node does not
\* return again (requested_locations after call_tool) is gone
GraphUpdate(state, ret) == ret

EdgeAfterDecide_asks_model(state) ==
    LET n == IF "next" \in state.keys THEN state.next ELSE "end"
    IN  CASE n = "call_tool" -> "t_call_tool"
          [] n = "summarize" -> "t_summarize"
          [] OTHER -> "g_decision"

EdgeAfterDecide_never_direct(state) ==
    LET n == IF "next" \in state.keys THEN state.next ELSE "end"
    IN  CASE n = "call_tool" -> "t_call_tool"
          [] n = "summarize" -> "t_call_tool"
          [] OTHER -> "t_end"

\* the conditional edge after decide: state.get("next", "end")
EdgeAfterDecide(state) ==
    LET n == IF "next" \in state.keys THEN state.next ELSE "end"
    IN  CASE n = "call_tool" -> "t_call_tool"
          [] n = "summarize" -> "t_summarize"
          [] OTHER -> "t_end"

(***************************************************************************)
(* Tools and registry (tools/__init__.py, tools/impl)                      *)
(***************************************************************************)
\* a tool's outcome: raised = TRUE is an exception that leaves tool.call
ToolSuccess(d) == [raised |-> FALSE, success |-> TRUE, detail |-> d]
ToolFailure(d) == [raised |-> FALSE, success |-> FALSE, detail |-> d]
ToolRaised(d) == [raised |-> TRUE, success |-> FALSE, detail |-> d]

\* create_tool_registry: the names registered
registry_tools == {"get_weather", "get_stock_info", "calculate"}

\* WeatherTool.call: params.get raises when params is no dict; the data of
\* the result, as far as the model keeps it, is the city it was asked for
WeatherCall(a) ==
    IF a.kind # "dict" THEN ToolRaised("AttributeError")
    ELSE ToolSuccess(ArgGet(a, "city", ""))

\* str.upper() on the exchange codes
UpperTok(t) ==
    CASE t = "sh" -> "SH"
      [] t = "sz" -> "SZ"
      [] OTHER -> t

\* StockTool.call: exchange.upper() raises when exchange is JSON null; the
\* data of the result, as far as the model keeps it, is full_symbol
StockCall(a) ==
    IF a.kind # "dict" THEN ToolRaised("AttributeError")
    ELSE IF ArgGet(a, "exchange", "sh") = "null" THEN ToolRaised("AttributeError")
    ELSE ToolSuccess(UpperTok(ArgGet(a, "exchange", "sh")) \o ArgGet(a, "symbol", ""))

allowed_chars == {"0", "1", "2", "3", "4", "5", "6", "7", "8", "9",
                  "+", "-", "*", "/", "(", ")", ".", " "}
digits == {"0", "1", "2", "3", "4", "5", "6", "7", "8", "9"}

(***************************************************************************)
(* Calculator (tools/impl/calculator_tool.py): eval over the characters    *)
(* the model's expressions are written in: digits, + - * / ( ) and space.  *)
(* An expression is the sequence of its characters.  Values are Python's   *)
(* int, float (kept as the exact fraction num/den) and the empty tuple.    *)
(***************************************************************************)
DigitValue(c) ==
    CASE c = "0" -> 0 [] c = "1" -> 1 [] c = "2" -> 2 [] c = "3" -> 3 [] c = "4" -> 4
      [] c = "5" -> 5 [] c = "6" -> 6 [] c = "7" -> 7 [] c = "8" -> 8 [] c = "9" -> 9

NumTok(n) == [t |-> "num", n |-> n, s |-> ""]
OpTok(s) == [t |-> "op", n |-> 0, s |-> s]
\* a decimal integer literal with a leading zero that is not all zeros
BadTok == [t |-> "bad", n |-> 0, s |-> ""]

\* the first index after the run of digits that starts at i
RECURSIVE DigitsEnd(_, _)
DigitsEnd(e, i) ==
    IF i <= Len(e) /\ e[i] \in digits THEN DigitsEnd(e, i + 1) ELSE i

RECURSIVE LiteralValue(_, _)
LiteralValue(lit, acc) ==
    IF lit = <<>> THEN acc
    ELSE LiteralValue(Tail(lit), 10 * acc + DigitValue(Head(lit)))

\* Python's tokenizer on the expression from index i on
RECURSIVE Tokenize(_, _)
Tokenize(e, i) ==
    IF i > Len(e) THEN <<>>
    ELSE IF e[i] = " " THEN Tokenize(e, i + 1)
    ELSE IF e[i] \in digits
    THEN LET j == DigitsEnd(e, i)
             lit == SubSeq(e, i, j - 1)
             leadingZero == /\ Len(lit) > 1
                            /\ lit[1] = "0"
                            /\ \E k \in 1..Len(lit) : lit[k] # "0"
         IN  <<IF leadingZero THEN BadTok ELSE NumTok(LiteralValue(lit, 0))>>
                 \o Tokenize(e, j)
    ELSE IF e[i] \in {"*", "/"} /\ i < Len(e) /\ e[i + 1] = e[i]
    THEN <<OpTok(e[i] \o e[i])>> \o Tokenize(e, i + 2)
    ELSE <<OpTok(e[i])>> \o Tokenize(e, i + 1)

\* a parse gives the syntax tree and the index of the next token
NoParse == [ok |-> FALSE, node |-> <<>>, p |-> 0]
Parsed(node, p) == [ok |-> TRUE, node |-> node, p |-> p]
IsOp(toks, p, ops) == p <= Len(toks) /\ toks[p].t = "op" /\ toks[p].s \in ops

\* Python's expression grammar as one recursive operator: rule names the
\* grammar rule, left the node already parsed to the left (for the rules
\* that continue one), p the index of the next token
RECURSIVE ParseRule(_, _, _, _)
ParseRule(rule, toks, left, p) ==
    CASE rule = "atom" ->
            \* atom: NUMBER | '(' ')' | '(' expr ')'
            IF p > Len(toks) THEN NoParse
            ELSE IF toks[p].t = "num" THEN Parsed([k |-> "num", n |-> toks[p].n], p + 1)
            ELSE IF IsOp(toks, p, {"("})
            THEN IF IsOp(toks, p + 1, {")"}) THEN Parsed([k |-> "tuple"], p + 2)
                 ELSE LET r == ParseRule("expr", toks, <<>>, p + 1)
                      IN  IF r.ok /\ IsOp(toks, r.p, {")"}) THEN Parsed(r.node, r.p + 1)
                          ELSE NoParse
            ELSE NoParse
      [] rule = "trailers" ->
            \* a call: '(' ')' , '(' expr ')' , '(' '*' expr ')' , '(' '**' expr ')'
            IF IsOp(toks, p, {"("})
            THEN LET q == IF IsOp(toks, p + 1, {"*", "**"}) THEN p + 2 ELSE p + 1
                     r == IF IsOp(toks, p + 1, {")"}) THEN Parsed(<<>>, p + 1)
                          ELSE ParseRule("expr", toks, <<>>, q)
                     args == IF IsOp(toks, p + 1, {")"}) THEN <<>> ELSE <<r.node>>
                 IN  IF r.ok /\ IsOp(toks, r.p, {")"})
                     THEN ParseRule("trailers", toks,
                                    [k |-> "call", f |-> left, args |-> args], r.p + 1)
                     ELSE NoParse
            ELSE Parsed(left, p)
      [] rule = "power" ->
            \* power: atom trailers ['**' factor]
            LET a == ParseRule("atom", toks, <<>>, p)
                t == IF a.ok THEN ParseRule("trailers", toks, a.node, a.p) ELSE NoParse
                r == IF t.ok /\ IsOp(toks, t.p, {"**"})
                     THEN ParseRule("factor", toks, <<>>, t.p + 1) ELSE NoParse
            IN  IF t.ok /\ IsOp(toks, t.p, {"**"})
                THEN IF r.ok
                     THEN Parsed([k |-> "bin", op |-> "**", l |-> t.node, r |-> r.node], r.p)
                     ELSE NoParse
                ELSE t
      [] rule = "factor" ->
            \* factor: ('+' | '-') factor | power
            LET r == ParseRule(IF IsOp(toks, p, {"+", "-"}) THEN "factor" ELSE "power",
                               toks, <<>>, IF IsOp(toks, p, {"+", "-"}) THEN p + 1 ELSE p)
            IN  IF IsOp(toks, p, {"+", "-"}) /\ r.ok
                THEN Parsed([k |-> "un", op |-> toks[p].s, x |-> r.node], r.p)
                ELSE r
      [] rule \in {"term", "expr"} ->
            \* term: factor (('*' | '/' | '//') factor)*
            \* expr: term (('+' | '-') term)*
            LET f == ParseRule(IF rule = "term" THEN "factor" ELSE "term", toks, <<>>, p)
            IN  IF f.ok
                THEN ParseRule(IF rule = "term" THEN "term_rest" ELSE "expr_rest",
                               toks, f.node, f.p)
                ELSE NoParse
      [] rule \in {"term_rest", "expr_rest"} ->
            IF IsOp(toks, p, IF rule = "term_rest" THEN {"*", "/", "//"} ELSE {"+", "-"})
            THEN LET r == ParseRule(IF rule = "term_rest" THEN "factor" ELSE "term",
                                    toks, <<>>, p + 1)
                 IN  IF r.ok
                     THEN ParseRule(rule, toks,
                                    [k |-> "bin", op |-> toks[p].s, l |-> left, r |-> r.node],
                                    r.p)
                     ELSE NoParse
            ELSE Parsed(left, p)

\* compile(expression, mode eval): the whole expression is one expr
Parse(e) ==
    LET toks == Tokenize(e, 1)
    IN  IF \E i \in 1..Len(toks) : toks[i].t = "bad" THEN NoParse
        ELSE LET r == ParseRule("expr", toks, <<>>, 1)
             IN  IF r.ok /\ r.p = Len(toks) + 1 THEN r ELSE NoParse

\* values and the outcome of evaluating a node: err is the message of the
\* exception raised, "" when there is none
IntV(n) == [kind |-> "int", num |-> n, den |-> 1]
FloatV(n, d) == IF d < 0 THEN [kind |-> "float", num |-> 0 - n, den |-> 0 - d]
                ELSE [kind |-> "float", num |-> n, den |-> d]
TupleV == [kind |-> "tuple", num |-> 0, den |-> 1]
Value(v) == [err |-> "", v |-> v]
Raise(msg) == [err |-> msg, v |-> IntV(0)]

RECURSIVE Power(_, _)
Power(b, e) == IF e = 0 THEN 1 ELSE b * Power(b, e - 1)

Abs(n) == IF n < 0 THEN 0 - n ELSE n

\* int or float result of an operation, by the operands' kinds
Number(isInt, n, d) == IF isInt THEN IntV(n) ELSE FloatV(n, d)

\* a ** b for an exponent of integral value e
PowerOp(a, e, isInt) ==
    IF e >= 0 THEN Value(Number(isInt, Power(a.num, e), Power(a.den, e)))
    ELSE IF a.num = 0 THEN Raise("0.0 cannot be raised to a negative power")
    ELSE Value(FloatV(Power(a.den, 0 - e), Power(a.num, 0 - e)))

BinOp_division_unchecked(op, a, b) ==
    IF a.kind = "tuple" \/ b.kind = "tuple"
    THEN IF op = "*" /\ (a.kind = "int" \/ b.kind = "int") THEN Value(TupleV)
         ELSE IF op = "+" /\ a.kind = "tuple" /\ b.kind = "tuple" THEN Value(TupleV)
         ELSE Raise("TypeError")
    ELSE LET isInt == a.kind = "int" /\ b.kind = "int"
         IN  CASE op = "+" -> Value(Number(isInt, a.num * b.den + b.num * a.den, a.den * b.den))
               [] op = "-" -> Value(Number(isInt, a.num * b.den - b.num * a.den, a.den * b.den))
               [] op = "*" -> Value(Number(isInt, a.num * b.num, a.den * b.den))
               [] op = "/" ->
                    IF b.num = 0 THEN Value(FloatV(0, 1))
                    ELSE Value(FloatV(a.num * b.den, a.den * b.num))
               [] op = "//" ->
                    IF b.num = 0 THEN Value(Number(isInt, 0, 1))
                    ELSE LET q == FloatV(a.num * b.den, a.den * b.num)
                         IN  Value(Number(isInt, q.num \div q.den, 1))
               [] op = "**" ->
                    IF b.num % b.den = 0 THEN PowerOp(a, b.num \div b.den, isInt)
                    ELSE Value(FloatV(1, 1))

\* the binary operators on two values
BinOp(op, a, b) ==
    IF a.kind = "tuple" \/ b.kind = "tuple"
    THEN IF op = "*" /\ (a.kind = "int" \/ b.kind = "int") THEN Value(TupleV)
         ELSE IF op = "+" /\ a.kind = "tuple" /\ b.kind = "tuple" THEN Value(TupleV)
         ELSE Raise("TypeError")
    ELSE LET isInt == a.kind = "int" /\ b.kind = "int"
         IN  CASE op = "+" -> Value(Number(isInt, a.num * b.den + b.num * a.den, a.den * b.den))
               [] op = "-" -> Value(Number(isInt, a.num * b.den - b.num * a.den, a.den * b.den))
               [] op = "*" -> Value(Number(isInt, a.num * b.num, a.den * b.den))
               [] op = "/" ->
                    IF b.num = 0
                    THEN Raise(IF isInt THEN "division by zero" ELSE "float division by zero")
                    ELSE Value(FloatV(a.num * b.den, a.den * b.num))
               [] op = "//" ->
                    IF b.num = 0
                    THEN Raise(IF isInt THEN "integer division or modulo by zero"
                               ELSE "float floor division by zero")
                    ELSE LET q == FloatV(a.num * b.den, a.den * b.num)
                         IN  Value(Number(isInt, q.num \div q.den, 1))
               [] op = "**" ->
                    IF b.num % b.den = 0 THEN PowerOp(a, b.num \div b.den, isInt)
                    ELSE Value(FloatV(1, 1))

RECURSIVE Evaluate(_)
Evaluate(node) ==
    CASE node.k = "num" -> Value(IntV(node.n))
      [] node.k = "tuple" -> Value(TupleV)
      [] node.k = "un" ->
            LET x == Evaluate(node.x)
            IN  IF x.err # "" THEN x
                ELSE IF x.v.kind = "tuple" THEN Raise("TypeError")
                ELSE IF node.op = "-"
                THEN Value([x.v EXCEPT !.num = 0 - @])
                ELSE x
      [] node.k = "bin" ->
            LET l == Evaluate(node.l)
            IN  IF l.err # "" THEN l
                ELSE LET r == Evaluate(node.r)
                     IN  IF r.err # "" THEN r ELSE BinOp(node.op, l.v, r.v)
      [] node.k = "call" ->
            LET f == Evaluate(node.f)
            IN  IF f.err # "" THEN f
                ELSE IF node.args # <<>> /\ Evaluate(node.args[1]).err # ""
                THEN Evaluate(node.args[1])
                ELSE Raise("TypeError")

\* eval(expression): a SyntaxError when the expression does not compile
eval(expression) ==
    LET r == Parse(expression)
    IN  IF r.ok THEN Evaluate(r.node) ELSE Raise("SyntaxError")

RECURSIVE GCD(_, _)
GCD(a, b) == IF b = 0 THEN a ELSE GCD(b, a % b)

\* the value as the result carries it
Repr(v) ==
    CASE v.kind = "int" -> ToString(v.num)
      [] v.kind = "tuple" -> "()"
      [] v.kind = "float" ->
            LET g == GCD(Abs(v.num), v.den)
            IN  ToString(v.num \div g) \o "/" \o ToString(v.den \div g)

\* CalculatorTool.call from line 25 on, on the expression
calculate(expression) ==
    LET bad == {i \in 1..Len(expression) : expression[i] \notin allowed_chars}
    IN  IF bad # {}
        THEN ToolFailure("buyunxudezifu: "
                         \o expression[CHOOSE i \in bad : \A j \in bad : i <= j])
        ELSE LET r == eval(expression)
             IN  IF r.err = "" THEN ToolSuccess(Repr(r.v))
                 ELSE ToolFailure("jisuancuowu: " \o r.err)

\* CalculatorTool.call: params.get (line 23) raises when params is no dict
CalculatorCall(a) ==
    IF a.kind # "dict" THEN ToolRaised("AttributeError")
    ELSE calculate(ArgGet(a, "expression", <<>>))

handle_tool_call_unknown_raises(tool_name, a) ==
    IF tool_name \notin registry_tools THEN ToolRaised("bucunzai")
    ELSE IF tool_name = "get_weather" THEN WeatherCall(a)
    ELSE IF tool_name = "get_stock_info" THEN StockCall(a)
    ELSE CalculatorCall(a)

\* handle_tool_call
handle_tool_call(tool_name, a) ==
    IF tool_name \notin registry_tools THEN ToolFailure("bucunzai")
    ELSE IF tool_name = "get_weather" THEN WeatherCall(a)
    ELSE IF tool_name = "get_stock_info" THEN StockCall(a)
    ELSE CalculatorCall(a)

\* json.dumps(result)
JsonDumpsResult(r) ==
    IF r.success THEN <<"{", "success", "true", "data", r.detail, "}">>
    ELSE <<"{", "success", "false", "error", r.detail, "}">>

EmptyArgs == [ok |-> TRUE, kind |-> "dict", keys |-> {}, text |-> <<"{", "}">>]

\* nothing handed to the registry yet
NoInvocation == [name |-> "", params |-> EmptyArgs]

(***************************************************************************)
(* General agent (main.py): decision, tool, answer                         *)
(***************************************************************************)
DecisionError == <<"baoqian", "chuliqingqiushichucuo", "err">>
NoAnswer == <<"baoqian", "wufatigonghuida">>

\* the result of a node: messages, next, and ai_response when returned
NodeRet(msgs, nxt, hasAi, ai) ==
    [messages |-> msgs, next |-> nxt, has_ai |-> hasAi, ai |-> ai]

\* lines 121-125 / 166-170: a user message with this content is in msgs
HasSameUserMessage(msgs, text) ==
    \E i \in 1..Len(msgs) : msgs[i].role = "user" /\ GetContent(msgs[i], None) = text

WithUserInput_fresh_list(msgs, text) ==
    IF Truthy(text) /\ ~HasSameUserMessage(msgs, text)
    THEN <<UserMsg(text)>> ELSE msgs

\* lines 163-173
WithUserInput(msgs, text) ==
    IF Truthy(text) /\ ~HasSameUserMessage(msgs, text)
    THEN Append(msgs, UserMsg(text)) ELSE msgs

\* lines 109-128: the messages sent to the model, without the system prompt
DecisionRequest(msgs, text) ==
    WithUserInput(SelectSeq(msgs, LAMBDA m : m.role # "system"), text)

should_use_tool_failure_unrecorded(msgs, text, r) ==
    IF ~r.ok
    THEN NodeRet(IF Truthy(text) THEN Append(msgs, UserMsg(text)) ELSE msgs,
                 "direct_answer", TRUE, DecisionError)
    ELSE IF r.tool_calls # <<>>
    THEN NodeRet(Append(WithUserInput(msgs, text), AssistantCalls(r.tool_calls)),
                 "tool", FALSE, None)
    ELSE NodeRet(Append(WithUserInput(msgs, text), AssistantText(r.content)),
                 "direct_answer", TRUE, r.content)

\* should_use_tool: r is the outcome of the model call
should_use_tool(msgs, text, r) ==
    IF ~r.ok
    THEN NodeRet(Append(IF Truthy(text) THEN Append(msgs, UserMsg(text)) ELSE msgs,
                        AssistantText(DecisionError)),
                 "direct_answer", TRUE, DecisionError)
    ELSE IF r.tool_calls # <<>>
    THEN NodeRet(Append(WithUserInput(msgs, text), AssistantCalls(r.tool_calls)),
                 "tool", FALSE, None)
    ELSE NodeRet(Append(WithUserInput(msgs, text), AssistantText(r.content)),
                 "direct_answer", TRUE, r.content)

execute_tool_last_call(msgs) ==
    LET last_message == Last(msgs)
    IN  IF "tool_calls" \in last_message.keys /\ last_message.tool_calls # <<>>
        THEN LET tool_call == Last(last_message.tool_calls)
                 parsed == JsonLoads(tool_call.arguments)
                 arguments == IF parsed.ok THEN parsed ELSE EmptyArgs
                 result == handle_tool_call(tool_call.name, arguments)
             IN  IF result.raised
                 THEN Append(msgs, ToolMsg("unknown_tool",
                                           JsonDumpsResult(ToolFailure(result.detail))))
                 ELSE Append(msgs, ToolMsg(tool_call.name, JsonDumpsResult(result)))
        ELSE msgs

\* execute_tool: the messages the node returns
execute_tool(msgs) ==
    LET last_message == Last(msgs)
    IN  IF "tool_calls" \in last_message.keys /\ last_message.tool_calls # <<>>
        THEN LET tool_call == last_message.tool_calls[1]
                 parsed == JsonLoads(tool_call.arguments)
                 arguments == IF parsed.ok THEN parsed ELSE EmptyArgs
                 result == handle_tool_call(tool_call.name, arguments)
             IN  IF result.raised
                 THEN Append(msgs, ToolMsg("unknown_tool",
                                           JsonDumpsResult(ToolFailure(result.detail))))
                 ELSE Append(msgs, ToolMsg(tool_call.name, JsonDumpsResult(result)))
        ELSE msgs

\* generate_answer reaches the model call (line 211)
AnswerCallsModel(msgs) == msgs # <<>> /\ Last(msgs).role = "tool"

generate_answer_appends_again(msgs, r) ==
    IF msgs # <<>> /\ Last(msgs).role \in {"tool", "assistant"}
    THEN NodeRet(Append(msgs, AssistantText(IF r.made THEN r.content
                                            ELSE GetContent(Last(msgs), NoAnswer))),
                 "direct_answer", TRUE,
                 IF r.made THEN r.content ELSE GetContent(Last(msgs), NoAnswer))
    ELSE NodeRet(msgs, "direct_answer", TRUE, NoAnswer)

\* generate_answer without a failing model call
generate_answer(msgs, r) ==
    IF AnswerCallsModel(msgs)
    THEN NodeRet(Append(msgs, AssistantText(r.content)), "direct_answer", TRUE, r.content)
    ELSE IF msgs # <<>> /\ Last(msgs).role = "assistant"
    THEN NodeRet(msgs, "direct_answer", TRUE, GetContent(Last(msgs), NoAnswer))
    ELSE NodeRet(msgs, "direct_answer", TRUE, NoAnswer)

(***************************************************************************)
(* Session loop (main.py run_agent)                                        *)
(***************************************************************************)
UserInputs == { <<"nihao">>, <<"beijing", "dongjing", "xianzai">>, <<"EXIT">> }

W == [name |-> "get_weather", arguments |-> <<"{", "city", "beijing", "}">>]
T == [name |-> "get_current_time", arguments |-> <<"{", "}">>]
S == [name |-> "get_stock_info", arguments |-> <<"{", "symbol">>]

DecisionOutcomes ==
    {Failed}
    \cup {Response(c, <<>>) : c \in {None, <<"huida">>}}
    \cup {Response(None, tcs) : tcs \in {<<W>>, <<T>>, <<S>>, <<W, T>>}}

AnswerOutcomes == {Failed, Response(None, <<>>), Response(<<"zongjie">>, <<>>)}

ZeroCalls == [classify |-> 0, clarify |-> 0, decision |-> 0, answer |-> 0, tool |-> 0]

NoState == TState({}, <<>>, "decide", <<>>, None)
NoResult == [raised |-> FALSE, has_ai |-> FALSE, ai |-> None]

TimeServiceError == <<"shijianfuwuchucuo", "err">>
NoTimeAnswer == <<"baoqian", "wufatigongshijianhuida">>
GeneralError == <<"fashengcuowu", "err">>

\* line 338
IsExit(text) == lower(text) \in ExitCommands

Route_time_to_general(intent, question) ==
    IF Truthy(question) THEN "clarify" ELSE "general"

\* lines 353-366: where the turn goes after process_intent
Route(intent, question) ==
    IF Truthy(question) THEN "clarify"
    ELSE IF intent = TIME_RELATED THEN "time"
    ELSE "general"

TimeInitialState_with_history(text, hist) ==
    TState({"messages", "next"}, Append(hist, UserMsg(text)), "decide", <<>>, None)

\* line 369: initial_state of the time agent
TimeInitialState(text, hist) ==
    TState({"messages", "next"}, <<UserMsg(text)>>, "decide", <<>>, None)

HistoryAfterClarification_records(hist, text) == Append(hist, UserMsg(text))

\* lines 353-356: the clarification branch leaves the checkpoint alone
HistoryAfterClarification(hist, text) == hist

HistoryAfterTime_records(hist, state) == hist \o state.messages

\* lines 366-389: the time branch leaves the checkpoint alone
HistoryAfterTime(hist, state) == hist

\* the last assistant message with a content key, None when there is none
RECURSIVE LastAssistantContent(_)
LastAssistantContent(msgs) ==
    IF msgs = <<>> THEN [found |-> FALSE, content |-> None]
    ELSE IF Last(msgs).role = "assistant" /\ "content" \in Last(msgs).keys
    THEN [found |-> TRUE, content |-> Last(msgs).content]
    ELSE LastAssistantContent(SubSeq(msgs, 1, Len(msgs) - 1))

\* lines 373-387: the text handed to typewriter_print for a time agent result
TimeReply(result) ==
    IF "ai_response" \in result.keys THEN result.ai_response
    ELSE IF "messages" \in result.keys
    THEN IF LastAssistantContent(result.messages).found
         THEN LastAssistantContent(result.messages).content
         ELSE NoTimeAnswer
    ELSE NoTimeAnswer

\* lines 403-416: the text handed to typewriter_print for a general result
GeneralReply(result, msgs) ==
    IF result.has_ai THEN result.ai
    ELSE IF LastAssistantContent(msgs).found THEN LastAssistantContent(msgs).content
    ELSE NoAnswer

Printed_unhandled(text, errorText) == text

\* typewriter_print(text) raises on text.split when text is None; the except
\* clause around it then prints its error text
Printed(text, errorText) == IF text = None THEN errorText ELSE text

Init ==
    /\ pc = "input"
    /\ turn = 0
    /\ user_input = <<>>
    /\ cls = NoCall
    /\ clar = NoCall
    /\ dec = NoCall
    /\ intent_type = UNKNOWN
    /\ clarification_question = None
    /\ route = "none"
    /\ invoked = {}
    /\ calls = ZeroCalls
    /\ shown = <<>>
    /\ history = <<>>
    /\ turnStart = <<>>
    /\ tstate = NoState
    /\ tinit = <<>>
    /\ ai_response = NoResult
    /\ registry = registry_tools
    /\ invocation = NoInvocation
    /\ results = <<>>

\* lines 335-343: read the input; an exit command ends the loop
ReadInput ==
    /\ UNCHANGED registryvars
    /\ pc = "input"
    /\ turn < MaxTurns
    /\ \E text \in UserInputs :
        /\ user_input' = text
        /\ turn' = turn + 1
        /\ IF IsExit(text)
           THEN pc' = "done" /\ route' = "exit"
           ELSE pc' = "intent" /\ route' = "pending"
    /\ cls' = NoCall
    /\ clar' = NoCall
    /\ dec' = NoCall
    /\ intent_type' = UNKNOWN
    /\ clarification_question' = None
    /\ invoked' = {}
    /\ calls' = ZeroCalls
    /\ shown' = <<>>
    /\ turnStart' = history
    /\ tstate' = NoState
    /\ tinit' = <<>>
    /\ ai_response' = NoResult
    /\ UNCHANGED history

\* lines 345-371, 391-396: process_intent and the dispatch
ProcessIntent ==
    /\ UNCHANGED registryvars
    /\ pc = "intent"
    /\ \E rc \in ClassifyOutcomes :
       \E rq \in (IF NeedsClarification(recognize_intent(rc))
                  THEN ClarifyOutcomes ELSE {NoCall}) :
          LET res == process_intent(rc, rq)
              r == Route(res[1], res[2])
          IN  /\ cls' = rc
              /\ clar' = rq
              /\ calls' = [calls EXCEPT !.classify = @ + 1,
                                        !.clarify = @ + (IF rq.made THEN 1 ELSE 0)]
              /\ intent_type' = res[1]
              /\ clarification_question' = res[2]
              /\ route' = r
              /\ CASE r = "clarify" ->
                        /\ shown' = Append(shown, res[2])
                        /\ pc' = "input"
                        /\ history' = HistoryAfterClarification(history, user_input)
                        /\ UNCHANGED <<invoked, tstate, tinit>>
                   [] r = "time" ->
                        /\ tstate' = TimeInitialState(user_input, history)
                        /\ tinit' = TimeInitialState(user_input, history).messages
                        /\ invoked' = invoked \cup {"time"}
                        /\ pc' = "t_decide"
                        /\ UNCHANGED <<shown, history>>
                   [] OTHER ->
                        /\ invoked' = invoked \cup {"general"}
                        /\ pc' = "g_decision"
                        /\ UNCHANGED <<shown, history, tstate, tinit>>
    /\ UNCHANGED <<turn, user_input, dec, turnStart, ai_response>>

(***************************************************************************)
(* Time agent graph: decide -> {call_tool -> summarize | summarize | END}  *)
(***************************************************************************)
\* time_agent.invoke raises: line 388
TimeInvokeRaises ==
    /\ UNCHANGED registryvars
    /\ pc = "t_decide"
    /\ route = "time"
    /\ shown' = Append(shown, TimeServiceError)
    /\ history' = HistoryAfterTime(history, tstate)
    /\ pc' = "input"
    /\ UNCHANGED <<turn, user_input, cls, clar, dec, intent_type, clarification_question,
                   route, invoked, calls, turnStart, tstate, tinit, ai_response>>

\* node decide and its conditional edge
TimeDecide ==
    /\ UNCHANGED registryvars
    /\ pc = "t_decide"
    /\ tstate' = GraphUpdate(tstate, decide_next(tstate))
    /\ pc' = EdgeAfterDecide(tstate')
    /\ UNCHANGED <<turn, user_input, cls, clar, dec, intent_type, clarification_question,
                   route, invoked, calls, shown, history, turnStart, tinit,
                   ai_response>>

PendingCalls(state) ==
    LET messages == StateMessages(state)
    IN  IF messages # <<>> /\ "tool_calls" \in Last(messages).keys
        THEN Len(Last(messages).tool_calls) ELSE 0

\* node call_tool and its edge to summarize
TimeCallTool ==
    /\ UNCHANGED registryvars
    /\ pc = "t_call_tool"
    /\ \E oks \in [1..PendingCalls(tstate) -> BOOLEAN] :
          tstate' = GraphUpdate(tstate, call_tool_node(tstate, oks))
    /\ calls' = [calls EXCEPT !.tool = @ + PendingCalls(tstate)]
    /\ pc' = "t_summarize"
    /\ UNCHANGED <<turn, user_input, cls, clar, dec, intent_type, clarification_question,
                   route, invoked, shown, history, turnStart, tinit, ai_response>>

\* node summarize and its edge to END
TimeSummarize ==
    /\ UNCHANGED registryvars
    /\ pc = "t_summarize"
    /\ \E oks \in [1..Len(SummaryLocations(tstate)) -> BOOLEAN] :
          tstate' = GraphUpdate(tstate, summarize_node(tstate, oks))
    /\ pc' = "t_end"
    /\ UNCHANGED <<turn, user_input, cls, clar, dec, intent_type, clarification_question,
                   route, invoked, calls, shown, history, turnStart, tinit,
                   ai_response>>

\* lines 372-387: the reply of the time agent is shown
TimeOutput ==
    /\ UNCHANGED registryvars
    /\ pc = "t_end"
    /\ route = "time"
    /\ shown' = Append(shown, Printed(TimeReply(tstate), TimeServiceError))
    /\ history' = HistoryAfterTime(history, tstate)
    /\ pc' = "input"
    /\ UNCHANGED <<turn, user_input, cls, clar, dec, intent_type, clarification_question,
                   route, invoked, calls, turnStart, tstate, tinit, ai_response>>

(***************************************************************************)
(* General agent graph: decision -> {tool -> answer | answer}.  The        *)
(* MemorySaver checkpointer keeps, per thread, the messages the last       *)
(* finished node returned; a node reads them as state.messages, and a run  *)
(* that raises leaves the checkpoint of the last finished node.            *)
(***************************************************************************)
EdgeAfterDecision_always_tool(nxt) == "g_tool"

EdgeAfterDecision_decides_again(nxt) ==
    IF nxt = "tool" THEN "g_tool" ELSE "g_decision"

\* the conditional edge after decision (lines 256-267)
EdgeAfterDecision(nxt) == IF nxt = "tool" THEN "g_tool" ELSE "g_answer"

Decision ==
    /\ UNCHANGED registryvars
    /\ pc = "g_decision"
    /\ \E r \in DecisionOutcomes :
          LET ret == should_use_tool(history, user_input, r)
          IN  /\ dec' = r
              /\ history' = ret.messages
              /\ ai_response' = [raised |-> FALSE, has_ai |-> ret.has_ai, ai |-> ret.ai]
              /\ pc' = EdgeAfterDecision(ret.next)
    /\ calls' = [calls EXCEPT !.decision = @ + 1]
    /\ UNCHANGED <<turn, user_input, cls, clar, intent_type, clarification_question,
                   route, invoked, shown, turnStart, tstate, tinit>>

Tool ==
    /\ UNCHANGED registryvars
    /\ pc = "g_tool"
    /\ history' = execute_tool(history)
    /\ calls' = [calls EXCEPT !.tool = @ + 1]
    /\ pc' = "g_answer"
    /\ UNCHANGED <<turn, user_input, cls, clar, dec, intent_type, clarification_question,
                   route, invoked, shown, turnStart, tstate, tinit, ai_response>>

\* node answer; a failing model call (line 219) raises out of agent.invoke
Answer ==
    /\ UNCHANGED registryvars
    /\ pc = "g_answer"
    /\ \E r \in (IF AnswerCallsModel(history) THEN AnswerOutcomes ELSE {NoCall}) :
          /\ calls' = [calls EXCEPT !.answer = @ + (IF r.made THEN 1 ELSE 0)]
          /\ IF r.made /\ ~r.ok
             THEN /\ ai_response' = [raised |-> TRUE, has_ai |-> FALSE, ai |-> None]
                  /\ UNCHANGED history
             ELSE LET ret == generate_answer(history, r)
                  IN  /\ history' = ret.messages
                      /\ ai_response' = [raised |-> FALSE, has_ai |-> ret.has_ai,
                                         ai |-> ret.ai]
    /\ pc' = "g_end"
    /\ UNCHANGED <<turn, user_input, cls, clar, dec, intent_type, clarification_question,
                   route, invoked, shown, turnStart, tstate, tinit>>

\* lines 399-418: the reply, or the error of agent.invoke, is shown
GeneralOutput ==
    /\ UNCHANGED registryvars
    /\ pc = "g_end"
    /\ shown' = Append(shown,
                       IF ai_response.raised THEN GeneralError
                       ELSE Printed(GeneralReply(ai_response, history), GeneralError))
    /\ pc' = "input"
    /\ UNCHANGED <<turn, user_input, cls, clar, dec, intent_type, clarification_question,
                   route, invoked, calls, history, turnStart, tstate, tinit,
                   ai_response>>

Next ==
    \/ ReadInput
    \/ ProcessIntent
    \/ TimeInvokeRaises
    \/ TimeDecide
    \/ TimeCallTool
    \/ TimeSummarize
    \/ TimeOutput
    \/ Decision
    \/ Tool
    \/ Answer
    \/ GeneralOutput

Spec == Init /\ [][Next]_vars

(***************************************************************************)
(* The session loop with input() raising (main.py lines 335, 420-424)      *)
(***************************************************************************)
ProgramError == <<"chengxufashengcuowu", "err">>

\* line 335 raises KeyboardInterrupt; lines 420-422: a line is printed and
\* the loop is left
InputInterrupted ==
    /\ UNCHANGED registryvars
    /\ pc = "input"
    /\ pc' = "done"
    /\ route' = "interrupt"
    /\ UNCHANGED <<turn, user_input, cls, clar, dec, intent_type, clarification_question,
                   invoked, calls, shown, history, turnStart, tstate, tinit, ai_response>>

\* line 335 raises an Exception, as EOFError at the end of the input
\* stream; lines 423-424: the error is shown and the while loop goes on to
\* its next iteration
InputRaises ==
    /\ UNCHANGED registryvars
    /\ pc = "input"
    /\ pc' = "input"
    /\ route' = "input_error"
    /\ shown' = <<ProgramError>>
    /\ UNCHANGED <<turn, user_input, cls, clar, dec, intent_type, clarification_question,
                   invoked, calls, history, turnStart, tstate, tinit, ai_response>>

NextInput ==
    \/ Next
    \/ InputInterrupted
    \/ InputRaises

SpecInput == Init /\ [][NextInput]_vars

(***************************************************************************)
(* The time agent run on its own, from any conversation                    *)
(***************************************************************************)
MaxConv == 2

TimeConvMessages ==
    { UserMsg(<<"nihao">>),
      UserMsg(<<"xianzai", "jidian">>),
      UserMsg(<<"beijing", "dongjing", "xianzai">>),
      UserMsg(<<"beijing", "niuyue", "dongjing", "jidian">>),
      UserMsg(<<"shanghai", "beijing", "beijing", "jidian">>),
      UserMsg(None),
      AssistantText(<<"huida">>),
      AssistantCalls(<<TimeToolCall("Asia/Tokyo")>>),
      ToolMsg("get_current_time", DumpTimeResult(TimeResult("Asia/Tokyo", "both"))) }

RECURSIVE SeqsUpTo(_, _)
SeqsUpTo(set, n) ==
    IF n = 0 THEN {<<>>}
    ELSE SeqsUpTo(set, n - 1) \cup
         {Append(q, m) : q \in {x \in SeqsUpTo(set, n - 1) : Len(x) = n - 1}, m \in set}

TimeConversations == SeqsUpTo(TimeConvMessages, MaxConv)

InitTime ==
    /\ pc = "t_decide"
    /\ turn = 0
    /\ user_input = <<>>
    /\ cls = NoCall
    /\ clar = NoCall
    /\ dec = NoCall
    /\ intent_type = TIME_RELATED
    /\ clarification_question = None
    /\ route = "direct"
    /\ invoked = {"time"}
    /\ calls = ZeroCalls
    /\ shown = <<>>
    /\ history = <<>>
    /\ turnStart = <<>>
    /\ \E conv \in TimeConversations :
          /\ tstate = TState({"messages", "next"}, conv, "decide", <<>>, None)
          /\ tinit = conv
    /\ ai_response = NoResult
    /\ registry = registry_tools
    /\ invocation = NoInvocation
    /\ results = <<>>

NextTime ==
    \/ TimeDecide
    \/ TimeCallTool
    \/ TimeSummarize

SpecTime == InitTime /\ [][NextTime]_vars

\* conversations handed to the time agent: none, a greeting, questions
\* naming no, two and three places, a question without text, and
\* conversations that end with an assistant's tool calls or a tool message
RunConversations ==
    { <<>>,
      <<UserMsg(<<"nihao">>)>>,
      <<UserMsg(<<"xianzai", "jidian">>)>>,
      <<UserMsg(<<"beijing", "dongjing", "xianzai">>)>>,
      <<UserMsg(<<"beijing", "niuyue", "dongjing", "jidian">>)>>,
      <<UserMsg(None)>>,
      <<UserMsg(<<"xianzai", "jidian">>), AssistantCalls(<<TimeToolCall("Asia/Tokyo")>>)>>,
      <<ToolMsg("get_current_time", DumpTimeResult(TimeResult("Asia/Tokyo", "both")))>>,
      <<UserMsg(<<"beijing", "dongjing", "xianzai">>),
        ToolMsg("get_current_time", DumpTimeResult(TimeResult("Asia/Tokyo", "both")))>> }

\* the time agent compiled and waiting for its caller
InitTimeRun ==
    /\ pc = "t_invoke"
    /\ turn = 0
    /\ user_input = <<>>
    /\ cls = NoCall
    /\ clar = NoCall
    /\ dec = NoCall
    /\ intent_type = TIME_RELATED
    /\ clarification_question = None
    /\ route = "direct"
    /\ invoked = {"time"}
    /\ calls = ZeroCalls
    /\ shown = <<>>
    /\ history = <<>>
    /\ turnStart = <<>>
    /\ tstate = TState({"messages", "next"}, <<>>, "decide", <<>>, None)
    /\ tinit = <<>>
    /\ ai_response = NoResult
    /\ registry = registry_tools
    /\ invocation = NoInvocation
    /\ results = <<>>

\* time_agent.invoke(initial_state): the caller hands over a conversation
\* and the graph starts at its entry point, decide
TimeInvoke ==
    /\ UNCHANGED registryvars
    /\ pc = "t_invoke"
    /\ \E conv \in RunConversations :
          /\ tstate' = TState({"messages", "next"}, conv, "decide", <<>>, None)
          /\ tinit' = conv
    /\ pc' = "t_decide"
    /\ UNCHANGED <<turn, user_input, cls, clar, dec, intent_type, clarification_question,
                   route, invoked, calls, shown, history, turnStart, ai_response>>

NextTimeRun == TimeInvoke \/ NextTime

\* invoke runs the nodes one after the other until END: a node that can
\* run does run
SpecTimeRun == InitTimeRun /\ [][NextTimeRun]_vars /\ WF_vars(NextTimeRun)

(***************************************************************************)
(* Location resolution: the time agent on any conversation, and            *)
(* map_location_to_timezone on any location name                           *)
(***************************************************************************)
LocationNames ==
    {"beijing", "dongjing", "niuyue", "moren", "mosike", "xinjiapo", "bolin", ""}

InitLocate ==
    /\ turn = 0
    /\ cls = NoCall
    /\ clar = NoCall
    /\ dec = NoCall
    /\ intent_type = TIME_RELATED
    /\ clarification_question = None
    /\ invoked = {"time"}
    /\ calls = ZeroCalls
    /\ shown = <<>>
    /\ history = <<>>
    /\ turnStart = <<>>
    /\ ai_response = NoResult
    /\ registry = registry_tools
    /\ invocation = NoInvocation
    /\ results = <<>>
    /\ \/ /\ pc = "t_decide"
          /\ route = "direct"
          /\ user_input = <<>>
          /\ \E conv \in TimeConversations :
                /\ tstate = TState({"messages", "next"}, conv, "decide", <<>>, None)
                /\ tinit = conv
       \/ /\ pc = "t_map"
          /\ route = "map"
          /\ \E location \in LocationNames : user_input = <<location>>
          /\ tstate = NoState
          /\ tinit = <<>>

\* map_location_to_timezone(location): the pair of lines 199-200
MapLocation ==
    /\ UNCHANGED registryvars
    /\ pc = "t_map"
    /\ tstate' = TState({"requested_locations"}, <<>>, "decide",
                        << <<user_input[1], map_location_to_timezone(user_input[1])>> >>,
                        None)
    /\ pc' = "t_mapped"
    /\ UNCHANGED <<turn, user_input, cls, clar, dec, intent_type, clarification_question,
                   route, invoked, calls, shown, history, turnStart, tinit,
                   ai_response>>

NextLocate ==
    \/ TimeDecide
    \/ TimeCallTool
    \/ MapLocation

SpecLocate == InitLocate /\ [][NextLocate]_vars

(***************************************************************************)
(* Tool calls: CALL_TOOL of the time agent and TOOL of the general agent   *)
(* on any list of pending tool calls                                       *)
(***************************************************************************)
MaxCalls == 3

\* a tool call as the assistant message lists it: a name and the text of
\* its arguments
ToolCall(tool_name, arguments) == [name |-> tool_name, arguments |-> arguments]

MalformedArguments == <<"{", "symbol">>
ListArguments == <<"[", "]">>

PendingToolCalls ==
    { TimeToolCall("Asia/Tokyo"),
      T,
      ToolCall("get_current_time", JsonDumps(<< <<"city", "beijing">> >>)),
      ToolCall("get_current_time", MalformedArguments),
      ToolCall("get_current_time", ListArguments),
      W,
      ToolCall("get_weather", JsonDumps(<< <<"date", "mingtian">>, <<"city", "dongjing">> >>)),
      ToolCall("get_weather", MalformedArguments),
      ToolCall("get_weather", ListArguments),
      S,
      ToolCall("get_stock_info", JsonDumps(<< <<"exchange", "null">> >>)) }

InitCalls ==
    /\ turn = 1
    /\ user_input = <<"nihao">>
    /\ cls = NoCall
    /\ clar = NoCall
    /\ intent_type = NON_TIME_RELATED
    /\ clarification_question = None
    /\ shown = <<>>
    /\ turnStart = <<>>
    /\ ai_response = NoResult
    /\ registry = registry_tools
    /\ invocation = NoInvocation
    /\ results = <<>>
    /\ \E tcs \in SeqsUpTo(PendingToolCalls, MaxCalls) :
          LET conv == <<UserMsg(user_input), AssistantCalls(tcs)>>
          IN  \/ /\ pc = "t_call_tool"
                 /\ route = "calls"
                 /\ invoked = {"time"}
                 /\ dec = NoCall
                 /\ calls = ZeroCalls
                 /\ tstate = TState({"messages", "next"}, conv, "call_tool", <<>>, None)
                 /\ tinit = conv
                 /\ history = <<>>
              \/ /\ tcs # <<>>
                 /\ pc = "g_tool"
                 /\ route = "general"
                 /\ invoked = {"general"}
                 /\ dec = Response(None, tcs)
                 /\ calls = [ZeroCalls EXCEPT !.decision = 1]
                 /\ tstate = NoState
                 /\ tinit = <<>>
                 /\ history = conv

NextCalls ==
    \/ TimeCallTool
    \/ Tool

SpecCalls == InitCalls /\ [][NextCalls]_vars

(***************************************************************************)
(* One run of the general agent's graph (agent.invoke, main.py line 400):  *)
(* invoke runs the nodes one after the other until no node is left to run, *)
(* so a node that can run does run (weak fairness of the steps)            *)
(***************************************************************************)
\* checkpointed histories a run can start from: none, a direct answer, a
\* turn that used the weather tool
PriorHistories ==
    { <<>>,
      <<UserMsg(<<"nihao">>), AssistantText(<<"huida">>)>>,
      <<UserMsg(<<"tianqi">>), AssistantCalls(<<W>>),
        ToolMsg("get_weather", <<"{", "success", "true", "data", "beijing", "}">>),
        AssistantText(<<"zongjie">>)>> }

InitTurn ==
    /\ pc = "g_decision"
    /\ turn = 1
    /\ user_input \in {text \in UserInputs : ~IsExit(text)}
    /\ cls = NoCall
    /\ clar = NoCall
    /\ dec = NoCall
    /\ intent_type = NON_TIME_RELATED
    /\ clarification_question = None
    /\ route = "general"
    /\ invoked = {"general"}
    /\ calls = ZeroCalls
    /\ shown = <<>>
    /\ history \in PriorHistories
    /\ turnStart = history
    /\ tstate = NoState
    /\ tinit = <<>>
    /\ ai_response = NoResult
    /\ registry = registry_tools
    /\ invocation = NoInvocation
    /\ results = <<>>

NextTurn ==
    \/ Decision
    \/ Tool
    \/ Answer
    \/ GeneralOutput

SpecTurn == InitTurn /\ [][NextTurn]_vars /\ WF_vars(NextTurn)

(***************************************************************************)
(* Registry invocations: handle_tool_call on a tool name and params, the   *)
(* same call made again                                                    *)
(***************************************************************************)
MaxExpr == 3
MaxInvocations == 2

\* the characters the expressions of the model are written in; "x" is a
\* character outside the calculator's allow-list
ExpressionChars == {"0", "2", "3", "+", "-", "*", "/", "(", ")", " ", "x"}

NamedExpressions ==
    { <<"2", "+", "3", "*", "4">>,
      <<"(", "2", "+", "3", ")", "*", "4">>,
      <<"2", "-", "3", "*", "(", "4", "-", "9", ")">>,
      <<"1", "2", "/", "(", "3", "-", "3", ")">>,
      <<"2", "+", "3", "*">>,
      <<"2", "+", "_", "_", "i", "m", "p", "o", "r", "t", "_", "_">> }

Expressions == SeqsUpTo(ExpressionChars, MaxExpr) \cup NamedExpressions

\* params that are a dict, given as its (key, value) pairs, and params that
\* are a list
Mapping(pairs) ==
    [ok |-> TRUE, kind |-> "dict",
     keys |-> {pairs[i][1] : i \in 1..Len(pairs)}, text |-> JsonDumps(pairs)]
ListParams == [ok |-> TRUE, kind |-> "list", keys |-> {}, text |-> ListArguments]

\* the names the system prompt of the decision node gives the model
\* (main.py line 105)
PromptedTools == {"get_weather", "get_stock_info", "calculate", "get_current_time"}

RegistryParams ==
    { Mapping(<<>>),
      ListParams,
      Mapping(<< <<"city", "beijing">> >>),
      Mapping(<< <<"city", "dongjing">>, <<"date", "mingtian">> >>),
      Mapping(<< <<"symbol", "600519">>, <<"exchange", "sz">> >>),
      Mapping(<< <<"exchange", "null">> >>) }
    \cup {Mapping(<< <<"expression", e>> >>) : e \in Expressions}

InitRegistry ==
    /\ pc = "r_invoke"
    /\ turn = 0
    /\ user_input = <<>>
    /\ cls = NoCall
    /\ clar = NoCall
    /\ dec = NoCall
    /\ intent_type = UNKNOWN
    /\ clarification_question = None
    /\ route = "registry"
    /\ invoked = {}
    /\ calls = ZeroCalls
    /\ shown = <<>>
    /\ history = <<>>
    /\ turnStart = <<>>
    /\ tstate = NoState
    /\ tinit = <<>>
    /\ ai_response = NoResult
    /\ registry = registry_tools
    /\ invocation \in [name : PromptedTools, params : RegistryParams]
    /\ results = <<>>

registry_after_call_unregisters(tools, tool_name) == tools \ {tool_name}

\* registry.tools after handle_tool_call: get_tool and tool.call only read
registry_after_call(tools, tool_name) == tools

\* handle_tool_call(tool_call, registry) on the tools the registry holds now
handle_tool_call_in(tools, tool_name, a) ==
    IF tool_name \notin tools THEN ToolFailure("bucunzai")
    ELSE handle_tool_call(tool_name, a)

\* handle_tool_call({"name": ..., "arguments": ...}); an exception it lets
\* through is recorded as the outcome with raised = TRUE
Invoke ==
    /\ pc = "r_invoke"
    /\ Len(results) < MaxInvocations
    /\ results' = Append(results, handle_tool_call_in(registry, invocation.name,
                                                      invocation.params))
    /\ registry' = registry_after_call(registry, invocation.name)
    /\ UNCHANGED <<pc, turn, user_input, cls, clar, dec, intent_type,
                   clarification_question, route, invoked, calls, shown, history,
                   turnStart, tstate, tinit, ai_response, invocation>>

NextRegistry == Invoke

SpecRegistry == InitRegistry /\ [][NextRegistry]_vars

(***************************************************************************)
(* Properties                                                              *)
(***************************************************************************)
IsPrefix(a, b) == Len(a) <= Len(b) /\ SubSeq(b, 1, Len(a)) = a

\* the classifier has run in the current turn
Classified == cls.made

\* the turn has ended and the loop waits for the next input
TurnEnded == pc = "input" /\ turn > 0

\* C1: when the classification is CANNOT_DETERMINE or UNKNOWN, whatever the
\* clarification step returns, no sub-agent is invoked in the turn and the
\* only thing shown is the clarification question.
C1_ClarificationOnly ==
    (Classified /\ intent_type \in {CANNOT_DETERMINE, UNKNOWN})
        => /\ invoked = {}
           /\ shown = <<clarification_question>>

\* C2: when the classification is TIME_RELATED the time agent is invoked, the
\* general agent is not, and the turn ends with one non-empty text shown, also
\* when the time agent fails.
C2_TimeTurn ==
    (Classified /\ intent_type = TIME_RELATED)
        => /\ invoked = {"time"}
           /\ TurnEnded => (Len(shown) = 1 /\ shown[1] # None /\ shown[1] # <<>>)

C2_Witness ==
    /\ TurnEnded
    /\ Classified
    /\ intent_type = TIME_RELATED
    /\ invoked = {"time"}
    /\ "ai_response" \in tstate.keys
    /\ shown = <<tstate.ai_response>>

\* C3: every turn that is not an exit command ends with a text shown to the
\* user, whichever of the model calls, the tool or the time agent fail; the
\* loop is left only by an exit command.
C3_AlwaysAMessage ==
    /\ TurnEnded => (Len(shown) >= 1 /\ \A i \in 1..Len(shown) : shown[i] # None)
    /\ pc = "done" => IsExit(user_input)

C3_Witness ==
    /\ TurnEnded
    /\ route = "general"
    /\ ai_response.raised
    /\ history # <<>>
    /\ Last(history).role = "tool"
    /\ shown = <<GeneralError>>

\* C4: a turn that ends with a clarification question leaves the persisted
\* history as it was when the turn started.
C4_ClarificationKeepsHistory ==
    (TurnEnded /\ route = "clarify") => history = turnStart

C4_Witness ==
    /\ TurnEnded
    /\ route = "clarify"
    /\ history # <<>>
    /\ shown = <<clarification_question>>

\* C5: a TIME_RELATED turn runs the time agent on a conversation that holds
\* only the current user message and leaves the persisted history as it was.
C5_TimeTurnIsolated ==
    route = "time"
        => /\ tinit = <<UserMsg(user_input)>>
           /\ IsPrefix(tinit, StateMessages(tstate))
           /\ history = turnStart

C5_Witness ==
    /\ TurnEnded
    /\ route = "time"
    /\ history # <<>>
    /\ Len(StateMessages(tstate)) >= 2

PaddedLabel(text, label) ==
    \E i \in 1..Len(text) :
        /\ text[i] = label[1]
        /\ \A k \in 1..Len(text) : k # i => text[k] = WS

\* C7 as claimed: a label is returned only when the content is exactly the
\* label.
C7_ExactLabelOnly ==
    (Classified /\ intent_type \in Labels) => (cls.ok /\ cls.content = intent_type)

\* C7 as amended: a label is returned exactly when the content, with leading
\* and trailing whitespace removed, is that label; every other outcome of the
\* model call gives UNKNOWN.
C7_StrippedLabelOnly ==
    Classified =>
        /\ intent_type \in Labels \cup {UNKNOWN}
        /\ \A l \in Labels :
              intent_type = l <=> (cls.ok /\ cls.content # None /\ PaddedLabel(cls.content, l))

C7_Witness ==
    /\ Classified
    /\ cls.ok
    /\ cls.content = <<WS>> \o TIME_RELATED \o <<WS>>
    /\ intent_type = TIME_RELATED

\* C8: process_intent returns a clarification question exactly when the intent
\* is CANNOT_DETERMINE or UNKNOWN; otherwise the clarification call is not
\* made; a failed clarification call gives the default question.
C8_ClarificationIff ==
    Classified =>
        /\ clarification_question # None <=> intent_type \in {CANNOT_DETERMINE, UNKNOWN}
        /\ intent_type \in {TIME_RELATED, NON_TIME_RELATED}
              => (~clar.made /\ calls.clarify = 0)
        /\ (clar.made /\ ~clar.ok) => clarification_question = DefaultClarification

C8_Witness ==
    /\ Classified
    /\ intent_type = CANNOT_DETERMINE
    /\ clar.made
    /\ ~clar.ok
    /\ clarification_question = DefaultClarification

\* the messages a finished time agent run added to its conversation
TimeAdded == SubSeq(StateMessages(tstate), Len(tinit) + 1, Len(StateMessages(tstate)))

IsAssistantText(m) == m.role = "assistant" /\ "content" \in m.keys /\ m.content # None

\* C9: a finished run of the time agent has kept the conversation it got and
\* added exactly one assistant text message, which is the last message.
C9_OneTrailingAssistant ==
    pc = "t_end" =>
        /\ IsPrefix(tinit, StateMessages(tstate))
        /\ TimeAdded # <<>>
        /\ IsAssistantText(Last(TimeAdded))
        /\ Cardinality({i \in 1..Len(TimeAdded) : IsAssistantText(TimeAdded[i])}) = 1

C9_Witness ==
    /\ pc = "t_end"
    /\ Len(TimeAdded) >= 4
    /\ TimeAdded[2].role = "tool"
    /\ IsAssistantText(Last(TimeAdded))

\* DECIDE reaches the keyword check with a question text
KeywordCheckReached ==
    /\ tinit = <<>> \/ Last(tinit).role # "tool"
    /\ FirstUserContent(tinit) # None

\* C10: when DECIDE checks the question and it holds no time keyword, the run
\* ends with the refusal as the only added message; no tool call is built and
\* no tool is invoked.
C10_RefusalWithoutTool ==
    (pc # "t_decide" /\ KeywordCheckReached
        /\ \A k \in time_keywords : ~Contains(FirstUserContent(tinit), k))
        => /\ pc = "t_end"
           /\ TimeAdded = <<AssistantText(Refusal)>>
           /\ calls.tool = 0

C10_Witness ==
    /\ pc = "t_end"
    /\ tinit = <<AssistantText(<<"huida">>), UserMsg(<<"nihao">>)>>
    /\ TimeAdded = <<AssistantText(Refusal)>>

\* the question DECIDE reads: the content of the first user message
Question == FirstUserContent(tinit)

\* the gazetteer cities that occur in a question, each once, in gazetteer order
CitiesIn(question) == SelectSeq(city_keywords, LAMBDA c : Contains(question, c))

\* the message DECIDE appended to the conversation
DecideMessage == StateMessages(tstate)[Len(tinit) + 1]

\* the arguments a tool call hands to the tool, read back from its text
CallTimezone(tc) == ArgGet(JsonLoads(tc.arguments), "timezone", "absent")
CallFormat(tc) == ArgGet(JsonLoads(tc.arguments), "format", "absent")

\* C11: for a question that passes the keyword check and names gazetteer
\* cities, DECIDE issues exactly one get_current_time call per distinct city,
\* in gazetteer order, with that city's timezone of the static table and the
\* format "both", and CALL_TOOL makes that many calls; beijing and dongjing
\* give exactly two calls, for Asia/Shanghai and Asia/Tokyo.
C11_OneCallPerCity ==
    (pc # "t_decide" /\ KeywordCheckReached /\ IsTimeQuestion(Question)
        /\ CitiesIn(Question) # <<>>)
        => LET cities == CitiesIn(Question)
               tcs == DecideMessage.tool_calls
           IN  /\ DecideMessage.role = "assistant"
               /\ "tool_calls" \in DecideMessage.keys
               /\ Len(tcs) = Len(cities)
               /\ \A i \in 1..Len(tcs) :
                     /\ tcs[i].name = "get_current_time"
                     /\ JsonLoads(tcs[i].arguments).keys = {"format", "timezone"}
                     /\ CallFormat(tcs[i]) = "both"
                     /\ CallTimezone(tcs[i]) = map_location_to_timezone(cities[i])
               /\ pc \in {"t_summarize", "t_end"} => calls.tool = Len(cities)
               /\ cities = <<"beijing", "dongjing">>
                     => /\ Len(tcs) = 2
                        /\ CallTimezone(tcs[1]) = "Asia/Shanghai"
                        /\ CallTimezone(tcs[2]) = "Asia/Tokyo"

C11_Witness ==
    /\ pc = "t_summarize"
    /\ tinit = <<UserMsg(<<"beijing", "dongjing", "xianzai">>)>>
    /\ DecideMessage.tool_calls =
           <<TimeToolCall("Asia/Shanghai"), TimeToolCall("Asia/Tokyo")>>
    /\ calls.tool = 2

\* C12: for a question that passes the keyword check and names no gazetteer
\* city, DECIDE issues exactly one get_current_time call, against
\* Asia/Shanghai, and CALL_TOOL makes one call; map_location_to_timezone gives
\* Asia/Shanghai for a location that is no key of the timezone table.
C12_DefaultTimezone ==
    /\ (pc \in {"t_call_tool", "t_summarize", "t_end"} /\ KeywordCheckReached
          /\ IsTimeQuestion(Question) /\ CitiesIn(Question) = <<>>)
          => /\ DecideMessage.role = "assistant"
             /\ "tool_calls" \in DecideMessage.keys
             /\ Len(DecideMessage.tool_calls) = 1
             /\ DecideMessage.tool_calls[1].name = "get_current_time"
             /\ CallTimezone(DecideMessage.tool_calls[1]) = "Asia/Shanghai"
             /\ CallFormat(DecideMessage.tool_calls[1]) = "both"
             /\ pc = "t_summarize" => calls.tool = 1
    /\ (pc = "t_mapped" /\ user_input[1] \notin timezone_mapping_keys)
          => tstate.requested_locations = << <<user_input[1], "Asia/Shanghai">> >>

C12_Witness ==
    /\ pc = "t_mapped"
    /\ user_input = <<"mosike">>
    /\ tstate.requested_locations = << <<"mosike", "Asia/Shanghai">> >>

\* a get_current_time call whose arguments are a mapping the tool accepts
WellFormedTimeCall(tc) ==
    /\ tc.name \in time_tool_names
    /\ IsObjectText(tc.arguments)
    /\ ObjectKeys(tc.arguments) \subseteq {"timezone", "format"}

\* C13: CALL_TOOL appends exactly one tool-role message per pending tool call,
\* in the order of the calls and under the name of its call, whether the call
\* succeeds, names an unknown tool, has unparsable arguments or raises; a call
\* the tool accepts gets its result whichever calls failed before it; the
\* state then moves to SUMMARIZE.
C13_OneMessagePerCall ==
    (route = "calls" /\ pc = "t_summarize")
        => LET tcs == Last(tinit).tool_calls
           IN  /\ IsPrefix(tinit, StateMessages(tstate))
               /\ Len(TimeAdded) = Len(tcs)
               /\ \A i \in 1..Len(tcs) :
                     /\ TimeAdded[i].role = "tool"
                     /\ TimeAdded[i].name = tcs[i].name
                     /\ WellFormedTimeCall(tcs[i]) =>
                            /\ TimeAdded[i].content[1] = "{"
                            /\ TimeAdded[i].content[3] =
                                   ArgGet(JsonLoads(tcs[i].arguments), "timezone",
                                          DefaultTimezone)
                     /\ ~JsonLoads(tcs[i].arguments).ok
                            => TimeAdded[i].content = ToolCallFailed
               /\ tstate.next = "summarize"
               /\ calls.tool = Len(tcs)

C13_Witness ==
    /\ route = "calls"
    /\ pc = "t_summarize"
    /\ Last(tinit).tool_calls =
           <<ToolCall("get_current_time", MalformedArguments), W,
             TimeToolCall("Asia/Tokyo")>>
    /\ TimeAdded[1].content = ToolCallFailed
    /\ TimeAdded[2].content = UnknownTool("get_weather")
    /\ TimeAdded[3].content = DumpTimeResult(TimeResult("Asia/Tokyo", "both"))

\* the number of occurrences of token t in text
RECURSIVE Count(_, _)
Count(text, t) ==
    IF text = <<>> THEN 0
    ELSE (IF Head(text) = t THEN 1 ELSE 0) + Count(Tail(text), t)

\* the number of (location, timezone) pairs the question asks for: one per
\* gazetteer city, the default pair when there is none
RequestedPairs == IF CitiesIn(Question) = <<>> THEN 1 ELSE Len(CitiesIn(Question))

\* C14 as claimed: on every path that reaches SUMMARIZE the summary has one
\* clause per requested (location, timezone) pair whose lookup gave a time and
\* a date, joined by count: one clause ends with a period, two clauses are
\* joined with a semicolon, three or more clauses are a bulleted list.
C14_JoinedByCount ==
    (pc = "t_end" /\ "ai_response" \in tstate.keys)
        => LET summary == tstate.ai_response
               n == Count(summary, "dangqianshijianshi")
           IN  /\ n <= RequestedPairs
               /\ Last(summary) = "."
               /\ n = 1 => (Count(summary, ";") = 0 /\ Count(summary, "<br>*") = 0)
               /\ n = 2 => (Count(summary, ";") = 1 /\ Count(summary, "<br>*") = 0)
               /\ n >= 3 => (Count(summary, "<br>*") = n /\ Count(summary, ";") = 0)

\* C15 as claimed: DECISION leaves the new user message out of the list sent
\* to the model, and out of the history, only when an identical user message
\* trails the history; in every other case, also when the same text was asked
\* in an earlier turn, the user message is appended and the list sent to the
\* model ends with it.
C15_AppendedUnlessTrailing ==
    (route = "general" /\ dec.made)
        => LET current == UserMsg(user_input)
               trailing == turnStart # <<>> /\ Last(turnStart) = current
               request == DecisionRequest(turnStart, user_input)
           IN  /\ ~trailing
                     => /\ request = Append(turnStart, current)
                        /\ IsPrefix(Append(turnStart, current), history)
               /\ trailing
                     => /\ request = turnStart
                        /\ Len(history) > Len(turnStart)
                        /\ history[Len(turnStart) + 1].role = "assistant"

\* the messages the current turn added to the persisted history
TurnAdded == SubSeq(history, Len(turnStart) + 1, Len(history))

\* C16: when the model call of DECISION fails, the history ends, from then to
\* the end of the turn, with an assistant message carrying the error text,
\* which is what the user is shown; no tool is invoked, no tool-role message
\* is appended and no further model call is made in the turn.
C16_DecisionFailure ==
    (route = "general" /\ dec.made /\ ~dec.ok)
        => /\ history # <<>>
           /\ Last(history) = AssistantText(DecisionError)
           /\ \A i \in 1..Len(TurnAdded) : TurnAdded[i].role # "tool"
           /\ pc \in {"g_answer", "g_end", "input"}
           /\ calls.tool = 0
           /\ calls.decision = 1
           /\ calls.answer = 0
           /\ TurnEnded => shown = <<DecisionError>>

C16_Witness ==
    /\ TurnEnded
    /\ route = "general"
    /\ dec.made
    /\ ~dec.ok
    /\ TurnAdded = <<UserMsg(user_input), AssistantText(DecisionError)>>
    /\ shown = <<DecisionError>>

\* the positions of the tool-role messages the current turn added
ToolMessagesAdded == {i \in 1..Len(TurnAdded) : TurnAdded[i].role = "tool"}

\* C17: when the DECISION response carries tool calls, the assistant message
\* lists all of them, TOOL makes exactly one invocation, of the first call,
\* and appends exactly one tool-role message right after the assistant
\* message: the result under the name of the first call, or the caught error
\* under the name unknown_tool; then ANSWER runs.
C17_FirstToolCallOnly ==
    (route = "general" /\ dec.ok /\ dec.tool_calls # <<>>)
        => LET first == dec.tool_calls[1]
               k == Len(TurnAdded)
           IN  /\ pc \in {"g_tool", "g_answer", "g_end", "input"}
               /\ pc = "g_tool"
                     => /\ calls.tool = 0
                        /\ ToolMessagesAdded = {}
                        /\ Last(history) = AssistantCalls(dec.tool_calls)
               /\ pc # "g_tool"
                     => /\ calls.tool = 1
                        /\ Cardinality(ToolMessagesAdded) = 1
                        /\ \E i \in ToolMessagesAdded :
                              /\ i > 1
                              /\ TurnAdded[i - 1] = AssistantCalls(dec.tool_calls)
                              /\ TurnAdded[i].name \in {first.name, "unknown_tool"}
                              /\ first = W
                                    => TurnAdded[i] =
                                          ToolMsg("get_weather",
                                                  <<"{", "success", "true",
                                                    "data", "beijing", "}">>)
               /\ pc = "g_answer" => Last(history).role = "tool"

C17_Witness ==
    /\ pc = "g_answer"
    /\ route = "general"
    /\ dec.ok
    /\ dec.tool_calls = <<W, T>>
    /\ calls.tool = 1
    /\ Last(history).role = "tool"
    /\ Last(history).name = "get_weather"
    /\ Cardinality(ToolMessagesAdded) = 1

\* argument mappings, each as its (key, value) pairs
ArgumentMappings ==
    { <<>>,
      << <<"city", "beijing">> >>,
      << <<"date", "mingtian">>, <<"city", "dongjing">> >>,
      << <<"format", "both">>, <<"timezone", "Asia/Tokyo">> >>,
      << <<"exchange", "null">> >> }

\* the value of key k in a mapping given as pairs, default when absent
PairValue(pairs, k, default) ==
    IF \E i \in 1..Len(pairs) : pairs[i][1] = k
    THEN LET i == CHOOSE j \in 1..Len(pairs) : pairs[j][1] = k IN pairs[i][2]
    ELSE default

\* C18 as claimed: a tool call whose argument text is the serialization of a
\* mapping reaches the tool with that mapping; a tool call whose argument text
\* is no well-formed mapping reaches the tool with the empty mapping, and its
\* tool message is the result the tool gives for the empty mapping, not a
\* failure; in TOOL of the general agent and in CALL_TOOL of the time agent.
C18_ArgumentsRoundTrip ==
    /\ (route = "general" /\ pc = "g_answer")
          => LET tc == dec.tool_calls[1]
                 msg == Last(history)
             IN  /\ \A pairs \in ArgumentMappings :
                       (tc.arguments = JsonDumps(pairs) /\ tc.name = "get_weather")
                           => msg = ToolMsg("get_weather",
                                  JsonDumpsResult(ToolSuccess(PairValue(pairs, "city", ""))))
                 /\ ~IsObjectText(tc.arguments)
                       => msg = ToolMsg(tc.name,
                              JsonDumpsResult(handle_tool_call(tc.name, EmptyArgs)))
    /\ (route = "calls" /\ pc = "t_summarize")
          => LET tcs == Last(tinit).tool_calls
             IN  \A i \in 1..Len(tcs) :
                    /\ \A pairs \in ArgumentMappings :
                          (tcs[i].arguments = JsonDumps(pairs) /\ WellFormedTimeCall(tcs[i]))
                              => /\ TimeAdded[i].content[1] = "{"
                                 /\ TimeAdded[i].content[3] =
                                        PairValue(pairs, "timezone", DefaultTimezone)
                    /\ (tcs[i].name \in time_tool_names /\ ~IsObjectText(tcs[i].arguments))
                          => \E ok \in BOOLEAN :
                                TimeAdded[i] =
                                    ToolMsg(tcs[i].name, DumpTimeResult(
                                        get_current_time(DefaultTimezone, "none", ok)))

\* C19 as claimed: every turn of the general agent ends with the persisted
\* history having an assistant message with a content last, and with no
\* failure having left the agent, also when the model call of ANSWER fails.
C19_EndsWithAssistantReply ==
    (TurnEnded /\ route = "general")
        => /\ ~ai_response.raised
           /\ history # <<>>
           /\ Last(history).role = "assistant"
           /\ "content" \in Last(history).keys

\* the tool message for a tool name the registry does not hold
NotFoundMessage(tool_name) ==
    ToolMsg(tool_name, <<"{", "success", "false", "error", "bucunzai", "}">>)

\* C20: when the first tool call names a tool that is not in the registry,
\* the lookup gives the failed result {success: false, error: ...} without
\* raising; TOOL appends it, under the name of the call, as the one tool-role
\* message of the turn, and the turn goes on to ANSWER, which makes its
\* model call.
C20_UnknownToolFailedResult ==
    (route = "general" /\ dec.ok /\ dec.tool_calls # <<>>
        /\ dec.tool_calls[1].name \notin registry_tools /\ pc # "g_tool")
        => /\ pc \in {"g_answer", "g_end", "input"}
           /\ calls.tool = 1
           /\ Cardinality(ToolMessagesAdded) = 1
           /\ \A i \in ToolMessagesAdded :
                 TurnAdded[i] = NotFoundMessage(dec.tool_calls[1].name)
           /\ pc = "g_answer"
                 => /\ Last(history) = NotFoundMessage(dec.tool_calls[1].name)
                    /\ calls.answer = 0
           /\ pc \in {"g_end", "input"} => calls.answer = 1

C20_Witness ==
    /\ pc = "g_end"
    /\ route = "general"
    /\ dec.ok
    /\ dec.tool_calls = <<T>>
    /\ calls.answer = 1
    /\ ~ai_response.raised
    /\ Len(TurnAdded) >= 2
    /\ TurnAdded[Len(TurnAdded) - 1] = NotFoundMessage("get_current_time")
    /\ Last(TurnAdded).role = "assistant"

\* C21: handle_tool_call never raises to its caller: for every registered
\* tool and every params value, what it gives back is a result
\* {success: ..., ...}, an exception inside the tool's function being
\* turned into {success: false, error: ...}.
C21_RegistryNeverRaises ==
    \A i \in 1..Len(results) :
        invocation.name \in registry => ~results[i].raised

\* the expression the calculator is handed, when params is a dict
Expression == ArgGet(invocation.params, "expression", <<>>)
Disallowed(expression) == {i \in 1..Len(expression) : expression[i] \notin allowed_chars}

\* C22: the calculator never raises, whatever it is handed, and an
\* expression with a character outside the allow-list gets the failure that
\* names the first such character, which is returned before eval is reached.
C22_CalculatorStructuredResult ==
    \A i \in 1..Len(results) :
        invocation.name = "calculate"
            => /\ ~results[i].raised
               /\ (invocation.params.kind = "dict" /\ Disallowed(Expression) # {})
                    => \E j \in Disallowed(Expression) :
                          /\ \A k \in Disallowed(Expression) : j <= k
                          /\ results[i] = ToolFailure("buyunxudezifu: " \o Expression[j])

\* Integer arithmetic over + - * and parentheses, defined by splitting an
\* expression at its last top-level + or -, else at its last top-level *,
\* else taking off a sign or a pair of parentheses: the usual precedence.
NoSpace(e) == SelectSeq(e, LAMBDA c : c # " ")
SpaceSplitsNumber(e) ==
    \E i, j \in 1..Len(e) :
        /\ i + 1 < j
        /\ e[i] \in digits
        /\ e[j] \in digits
        /\ \A k \in (i + 1)..(j - 1) : e[k] = " "
Depth(e, i) ==
    Cardinality({k \in 1..(i - 1) : e[k] = "("}) - Cardinality({k \in 1..(i - 1) : e[k] = ")"})
BinaryAt(e, ops) ==
    {i \in 2..(Len(e) - 1) : e[i] \in ops /\ e[i - 1] \in digits \cup {")"} /\ Depth(e, i) = 0}
IsNumeral(e) ==
    /\ e # <<>>
    /\ \A i \in 1..Len(e) : e[i] \in digits
    /\ Len(e) = 1 \/ e[1] # "0"
NotArith == [ok |-> FALSE, v |-> 0]
RECURSIVE Arith(_)
Arith(e) ==
    LET adds == BinaryAt(e, {"+", "-"})
        muls == BinaryAt(e, {"*"})
        at == IF adds # {} THEN CHOOSE i \in adds : \A j \in adds : j <= i
              ELSE CHOOSE i \in muls : \A j \in muls : j <= i
    IN  IF adds # {} \/ muls # {}
        THEN LET l == Arith(SubSeq(e, 1, at - 1))
                 r == Arith(SubSeq(e, at + 1, Len(e)))
             IN  IF ~(l.ok /\ r.ok) THEN NotArith
                 ELSE [ok |-> TRUE,
                       v |-> CASE e[at] = "+" -> l.v + r.v
                               [] e[at] = "-" -> l.v - r.v
                               [] e[at] = "*" -> l.v * r.v]
        ELSE IF e # <<>> /\ e[1] \in {"+", "-"}
        THEN LET r == Arith(Tail(e))
             IN  IF ~r.ok THEN NotArith
                 ELSE [ok |-> TRUE, v |-> IF e[1] = "-" THEN 0 - r.v ELSE r.v]
        ELSE IF Len(e) >= 2 /\ e[1] = "(" /\ e[Len(e)] = ")"
        THEN Arith(SubSeq(e, 2, Len(e) - 1))
        ELSE IF IsNumeral(e) THEN [ok |-> TRUE, v |-> LiteralValue(e, 0)]
        ELSE NotArith

ValidArith(e) ==
    /\ \A i \in 1..Len(e) : e[i] \in allowed_chars
    /\ ~SpaceSplitsNumber(e)
    /\ Arith(NoSpace(e)).ok
ArithValue(e) == Arith(NoSpace(e)).v

\* a valid arithmetic expression divided by a zero numeral or by a
\* parenthesised arithmetic expression of value zero
DividesByZero(e) ==
    \E i \in 2..(Len(e) - 1) : \E n \in {1, 2} :
        LET a == SubSeq(e, 1, i - 1)
            b == SubSeq(e, i + n, Len(e))
        IN  /\ i + n <= Len(e)
            /\ \A k \in i..(i + n - 1) : e[k] = "/"
            /\ " " \notin {e[k] : k \in 1..Len(e)}
            /\ ValidArith(a)
            /\ b = <<"0">> \/ (b[1] = "(" /\ b[Len(b)] = ")")
            /\ ValidArith(b)
            /\ ArithValue(b) = 0
DivisionErrors ==
    {"jisuancuowu: division by zero", "jisuancuowu: integer division or modulo by zero"}

\* expressions no grammar of arithmetic accepts: empty, unbalanced
\* parentheses, an operator or "(" at the end, a binary operator or ")" first
SyntaxInvalid(e) ==
    /\ \A i \in 1..Len(e) : e[i] \in allowed_chars
    /\ LET f == NoSpace(e)
       IN  \/ f = <<>>
           \/ Depth(f, Len(f) + 1) # 0
           \/ \E i \in 1..Len(f) : Depth(f, i + 1) < 0
           \/ f[Len(f)] \in {"+", "-", "*", "/", "("}
           \/ f[1] \in {"*", "/", ")"}

\* C23: on a valid integer arithmetic expression over + - * and
\* parentheses the calculator returns success with the arithmetic value
\* (usual precedence); on a division by zero a failure whose error names
\* the division; on a syntactically invalid expression a failure.
C23_CalculatorArithmetic ==
    \A i \in 1..Len(results) :
        (invocation.name = "calculate" /\ invocation.params.kind = "dict"
            /\ "expression" \in invocation.params.keys)
            => /\ ValidArith(Expression)
                    => results[i] = ToolSuccess(ToString(ArithValue(Expression)))
               /\ DividesByZero(Expression)
                    => /\ ~results[i].raised
                       /\ ~results[i].success
                       /\ results[i].detail \in DivisionErrors
               /\ SyntaxInvalid(Expression)
                    => results[i] = ToolFailure("jisuancuowu: SyntaxError")

C23_Witness ==
    /\ invocation.name = "calculate"
    /\ invocation.params = Mapping(<< <<"expression", <<"2", "+", "3", "*", "4">> >> >>)
    /\ results = <<ToolSuccess("14")>>

TopLevelException == route \in {"interrupt", "input_error"}

\* C25: an exception that reaches the top of the turn loop, a user
\* interrupt or any other, ends the session: from then on the loop is left
\* and no further turn is started.
C25_TopLevelExceptionEndsSession ==
    [][TopLevelException => (pc' = "done" /\ turn' = turn)]_vars

\* C26: a first tool call of DECISION that names one of the four tools the
\* system prompt gives the model is found in the registry, and TOOL appends
\* what the tool's function returned, not the not-found result.
C26_PromptedToolsInvocable ==
    (route = "general" /\ pc = "g_answer" /\ dec.ok /\ dec.tool_calls # <<>>
        /\ dec.tool_calls[1].name \in PromptedTools)
        => /\ dec.tool_calls[1].name \in registry
           /\ Last(history) # NotFoundMessage(dec.tool_calls[1].name)

\* the conversation of the agent that is running
Conversation == IF route = "general" THEN history ELSE StateMessages(tstate)

\* message i is tool-role and the nearest assistant-role message before it
\* lists a tool call of the tool message's name
NamesACall(msgs, i) ==
    \E j \in 1..(i - 1) :
        /\ msgs[j].role = "assistant"
        /\ \A k \in (j + 1)..(i - 1) : msgs[k].role # "assistant"
        /\ \E c \in 1..Len(msgs[j].tool_calls) : msgs[j].tool_calls[c].name = msgs[i].name

\* C27: every tool-role message of a conversation of the general agent or
\* of the time agent carries the name of one of the tool calls of the
\* nearest assistant-role message before it, whether the call succeeded or
\* its error was caught.
C27_ToolMessageNamesACall ==
    \A i \in 1..Len(Conversation) :
        Conversation[i].role = "tool" => NamesACall(Conversation, i)

\* C28: every node of the general agent (DECISION, TOOL, ANSWER) and of the
\* time agent (DECIDE, CALL_TOOL, SUMMARIZE) leaves the messages it received
\* as a prefix of the messages it returns: earlier messages are neither
\* altered nor removed.
C28_NodesAppendOnly ==
    [][/\ pc \in {"g_decision", "g_tool", "g_answer"} => IsPrefix(history, history')
       /\ pc \in {"t_decide", "t_call_tool", "t_summarize"}
            => IsPrefix(StateMessages(tstate), StateMessages(tstate)')]_vars

C28_Witness ==
    /\ route = "general"
    /\ pc = "g_end"
    /\ turn = 2
    /\ turnStart # <<>>
    /\ calls.tool = 1
    /\ calls.answer = 1
    /\ ~ai_response.raised
    /\ IsPrefix(turnStart, history)
    /\ Len(history) = Len(turnStart) + 4
    /\ history[Len(history) - 1].role = "tool"

\* the order of the nodes of the general agent's graph, the end of the run last
GeneralRank(p) ==
    CASE p = "g_decision" -> 4
      [] p = "g_tool" -> 3
      [] p = "g_answer" -> 2
      [] p = "g_end" -> 1
      [] OTHER -> 0

\* a step from a node of the general agent follows an edge of its graph
GeneralStepForward ==
    pc \in {"g_decision", "g_tool", "g_answer", "g_end"}
        => /\ GeneralRank(pc') < GeneralRank(pc)
           /\ pc' = "g_tool" => pc = "g_decision"
           /\ pc' = "g_answer" => pc \in {"g_decision", "g_tool"}
           /\ pc' = "g_end" => pc = "g_answer"

\* C29: a turn of the general agent visits DECISION once, then TOOL at most
\* once and only when DECISION's model call produced a tool call, then
\* ANSWER at most once, and ends with the reply shown: every step goes
\* forward in that order, none goes back to DECISION, and the turn makes at
\* most one tool invocation and at most two model calls.
C29_GeneralTurnBounded ==
    /\ [](route = "general"
            => /\ calls.decision <= 1
               /\ calls.tool <= 1
               /\ calls.answer <= 1
               /\ calls.decision + calls.answer <= 2
               /\ pc \in {"g_tool", "g_answer", "g_end"} => calls.decision = 1
               /\ (calls.tool = 1 \/ pc = "g_tool") => (dec.ok /\ dec.tool_calls # <<>>))
    /\ [][GeneralStepForward]_vars
    /\ (pc = "g_decision") ~> (pc = "input" /\ Len(shown) = 1)

C29_Witness ==
    /\ route = "general"
    /\ pc = "input"
    /\ turnStart # <<>>
    /\ calls.decision = 1
    /\ calls.tool = 1
    /\ calls.answer = 1
    /\ dec.tool_calls = <<W, T>>
    /\ Len(shown) = 1

\* the incoming conversation ends with a tool-role message
IncomingEndsWithTool == tinit # <<>> /\ Last(tinit).role = "tool"

\* a step from a node of the time agent follows an edge of its graph:
\* DECIDE goes to the end with a refusal or an error, to CALL_TOOL, or,
\* exactly when the incoming conversation ends with a tool-role message,
\* directly to SUMMARIZE; CALL_TOOL goes to SUMMARIZE; SUMMARIZE ends
TimeStepForward ==
    /\ pc = "t_decide"
        => /\ pc' \in {"t_end", "t_call_tool", "t_summarize"}
           /\ pc' = "t_summarize" <=> IncomingEndsWithTool
           /\ pc' = "t_end"
                => GetContent(Last(StateMessages(tstate)'), None) \in {Refusal, DecideError}
    /\ pc = "t_call_tool" => pc' = "t_summarize"
    /\ pc = "t_summarize" => pc' = "t_end"
    /\ pc = "t_end" => pc' = "t_end"

\* C30: a run of the time agent visits DECIDE once and then ends at once
\* (refusal or error), or goes through CALL_TOOL and then SUMMARIZE, or
\* goes to SUMMARIZE directly, which it does exactly when the incoming
\* conversation ends with a tool-role message; every run reaches the end.
C30_TimeRunShape ==
    /\ [][TimeStepForward]_vars
    /\ (pc = "t_decide") ~> (pc = "t_end")

C30_Witness ==
    /\ pc = "t_end"
    /\ IncomingEndsWithTool
    /\ calls.tool = 0
    /\ Len(StateMessages(tstate)) = Len(tinit) + 1
    /\ Last(StateMessages(tstate)).role = "assistant"

\* the tool-role messages after the first n messages
ToolMessagesAfter(msgs, n) ==
    Cardinality({i \in (n + 1)..Len(msgs) : msgs[i].role = "tool"})

\* the tool calls asked for by the assistant messages after the first n
RECURSIVE ToolCallsAfter(_, _)
ToolCallsAfter(msgs, n) ==
    IF n >= Len(msgs) THEN 0
    ELSE (IF "tool_calls" \in msgs[n + 1].keys THEN Len(msgs[n + 1].tool_calls) ELSE 0)
         + ToolCallsAfter(msgs, n + 1)

\* C31: in one turn the classification, clarification, decision and answer
\* model calls are each made at most once, and no pending tool call is
\* invoked more than once, whether the calls succeed or fail.
C31_NoCallRetried ==
    /\ calls.classify <= 1
    /\ calls.clarify <= 1
    /\ calls.decision <= 1
    /\ calls.answer <= 1
    /\ route = "general"
        => /\ calls.tool <= Len(dec.tool_calls)
           /\ ToolMessagesAfter(history, Len(turnStart)) = calls.tool
    /\ route = "time"
        => /\ calls.tool <= ToolCallsAfter(StateMessages(tstate), Len(tinit))
           /\ ToolMessagesAfter(StateMessages(tstate), Len(tinit)) <= calls.tool

\* a turn whose answer call failed after a decision that asked for two tools
C31_Witness ==
    /\ route = "general"
    /\ pc = "input"
    /\ Len(dec.tool_calls) = 2
    /\ calls.decision = 1
    /\ calls.tool = 1
    /\ calls.answer = 1
    /\ ai_response.raised

\* the answer node runs on a history that ends with an assistant message
AnswerOnAssistant ==
    pc = "g_answer" /\ history # <<>> /\ Last(history).role = "assistant"

\* such a run returns the content of that message as the reply, leaves the
\* history as it is and makes no model call
AnswerReturnsTrailing ==
    AnswerOnAssistant
        => /\ pc' = "g_end"
           /\ history' = history
           /\ calls' = calls
           /\ ~ai_response'.raised
           /\ ai_response'.has_ai
           /\ "content" \in Last(history).keys
           /\ ai_response'.ai = Last(history).content

\* C32: in the answer node of the general agent, when the trailing message
\* is assistant-role (no tool was run), the reply is that message's
\* content, the history is returned unchanged and no model call is made.
C32_AnswerReturnsTrailingAssistant == [][AnswerReturnsTrailing]_vars

C32_Witness ==
    /\ route = "general"
    /\ pc = "g_end"
    /\ dec.ok /\ dec.tool_calls = <<>> /\ dec.content = <<"huida">>
    /\ calls.tool = 0
    /\ calls.answer = 0
    /\ Last(history) = AssistantText(<<"huida">>)
    /\ ai_response.ai = <<"huida">>

\* an assistant message with text and one asking for tools
IsAssistantReply(msg) ==
    msg.role = "assistant" /\ "content" \in msg.keys /\ "tool_calls" \notin msg.keys
IsAssistantCalls(msg) ==
    msg.role = "assistant" /\ "tool_calls" \in msg.keys /\ msg.tool_calls # <<>>

\* msgs from index i on is a concatenation of complete turn blocks: a user
\* message, optionally an assistant message with tool calls and a tool
\* message, then an assistant message with text
RECURSIVE TurnBlocks(_, _)
TurnBlocks(msgs, i) ==
    IF i > Len(msgs) THEN TRUE
    ELSE /\ msgs[i].role = "user"
         /\ \/ /\ i + 1 <= Len(msgs)
               /\ IsAssistantReply(msgs[i + 1])
               /\ TurnBlocks(msgs, i + 2)
            \/ /\ i + 3 <= Len(msgs)
               /\ IsAssistantCalls(msgs[i + 1])
               /\ msgs[i + 2].role = "tool"
               /\ IsAssistantReply(msgs[i + 3])
               /\ TurnBlocks(msgs, i + 4)

UserMessages(msgs) == Cardinality({i \in 1..Len(msgs) : msgs[i].role = "user"})

\* C33: between turns the history the general agent keeps is a
\* concatenation of complete turn blocks; a turn of the general agent adds
\* one user message to it (so the user messages count the general agent's
\* turns) and two assistant text messages are never adjacent.
C33_HistoryIsTurnBlocks ==
    pc \in {"input", "done"}
        => /\ TurnBlocks(history, 1)
           /\ route = "general"
                => UserMessages(history) = UserMessages(turnStart) + 1
           /\ \A i \in 1..(Len(history) - 1) :
                  ~(IsAssistantReply(history[i]) /\ IsAssistantReply(history[i + 1]))

\* the model completion calls counted so far in the turn
ModelCalls == <<calls.classify, calls.clarify, calls.decision, calls.answer>>

\* a node of the time agent is about to run
AtTimeNode == pc \in {"t_decide", "t_call_tool", "t_summarize"}

\* a step of a node of the time agent makes no model call and reads no
\* model response
TimeNodeCallsNoModel ==
    AtTimeNode => /\ ModelCalls' = ModelCalls
                  /\ UNCHANGED <<cls, clar, dec>>

AfterCallTool(oks) == GraphUpdate(tstate, call_tool_node(tstate, oks))

\* a step of call_tool leaves a state that summarize turns into the same
\* summary, for the same places, as after any other outcome of the calls
SummaryIgnoresToolResults ==
    pc = "t_call_tool"
        => \A oks \in [1..PendingCalls(tstate) -> BOOLEAN] :
              /\ SummaryLocations(tstate') = SummaryLocations(AfterCallTool(oks))
              /\ \A clock \in [1..Len(SummaryLocations(tstate')) -> BOOLEAN] :
                     Summary(tstate', clock) = Summary(AfterCallTool(oks), clock)

====
